---------------------------- MODULE Spec2Model ----------------------------
(***************************************************************************)
(* Timetable generator: StudentScheduler (CP-SAT placement model),         *)
(* FacultyOptimizer (greedy instructor assignment), validate_timetable and *)
(* DualTimetableManager.generate, modelled as a state machine.             *)
(*                                                                         *)
(* Conventions.  A Python dict field that may be missing (or None) is an   *)
(* option: the empty set when missing, {v} when present.  A Python list or *)
(* an insertion-ordered dict is a sequence.  credit_hours / hours_per_week *)
(* may be fractional in the source; they are counted in half hours here,   *)
(* so int() is a real truncation.                                          *)
(***************************************************************************)
EXTENDS Integers, Sequences, FiniteSets, TLC

VARIABLES
    data,        \* the master data handed to DualTimetableManager
    pc,          \* position inside generate / assign_faculty
    status,      \* solver status of StudentScheduler.solve
    sol,         \* values the solver gave to the model's boolean variables
    baseline,    \* what StudentScheduler.solve returned: <<result, err>>
    fo,          \* locals of FacultyOptimizer.assign_faculty
    violations,  \* list returned by validate_timetable
    calls,       \* components generate has invoked so far, in order
    ret,         \* what generate returned: <<result, err>>
    conc         \* the other request in flight, when two are served at once

vars == <<data, pc, status, sol, baseline, fo, violations, calls, ret, conc>>

-----------------------------------------------------------------------------
(* Options and small helpers *)

None == {}

Some(v) == {v}

Has(o) == o # {}

The(o) == CHOOSE v \in o : TRUE

\* dict.get(key, default)
Get(o, default) == IF o = {} THEN default ELSE The(o)

Max(a, b) == IF a >= b THEN a ELSE b

Range(f) == {f[i] : i \in DOMAIN f}

RECURSIVE SumSet(_, _)
\* sum(w[k] for k in S)
SumSet(S, w) ==
    IF S = {} THEN 0
    ELSE LET k == CHOOSE e \in S : TRUE IN w[k] + SumSet(S \ {k}, w)

RECURSIVE SeqOfSet(_, _)
\* sorted(S, key=rank): the elements of S in ascending rank (ranks distinct)
SeqOfSet(S, rank) ==
    IF S = {} THEN <<>>
    ELSE LET m == CHOOSE e \in S : \A o \in S : rank[e] <= rank[o]
         IN <<m>> \o SeqOfSet(S \ {m}, rank)

\* first index of v in sequence q (0 when absent)
IndexOf(q, v) ==
    IF \E i \in 1..Len(q) : q[i] = v
    THEN CHOOSE i \in 1..Len(q) : q[i] = v /\ \A j \in 1..(i - 1) : q[j] # v
    ELSE 0

-----------------------------------------------------------------------------
(* Time slots: "<Day>_<Hour>" *)

SlotIds == {"Mon_09", "Mon_10", "Mon_11", "Thu_17"}

\* slot.split('_')[0]
DayOf(s) ==
    CASE s \in {"Mon_09", "Mon_10", "Mon_11"} -> "Mon"
      [] s = "Thu_17" -> "Thu"

\* int(slot.split('_')[1])
TimeOf(s) ==
    CASE s = "Mon_09" -> 9
      [] s = "Mon_10" -> 10
      [] s = "Mon_11" -> 11
      [] s = "Thu_17" -> 17

\* '17' in s or '18' in s or '19' in s
IsLate(s) == s = "Thu_17"

Days == {"Mon", "Tue", "Wed", "Thu", "Fri"}

day_order == [d \in Days |->
    CASE d = "Mon" -> 0 [] d = "Tue" -> 1 [] d = "Wed" -> 2
      [] d = "Thu" -> 3 [] d = "Fri" -> 4]


-----------------------------------------------------------------------------
(* Master data records *)

EmptyMap == [n \in {} |-> 0]

\* dict.get(key, default) on a mapping
MapGet(m, key, default) == IF key \in DOMAIN m THEN m[key] ELSE default

\* truthiness of an optional number: missing, None and 0 are falsy
Truthy(o) == Has(o) /\ The(o) # 0

\* int(h) of a number of hours given in half hours
IntOf(halves) == halves \div 2

CourseCodes == {"C1", "C2"}

\* Python's string order on the course codes in use
CodeRank == [c \in CourseCodes |-> IF c = "C1" THEN 1 ELSE 2]

Course(code, sess, groups, lab, pf) ==
    [course_code |-> code,
     name |-> None,
     sessions_per_week |-> sess.sessions_per_week,
     components |-> sess.components,
     credit_hours |-> sess.credit_hours,
     hours_per_week |-> sess.hours_per_week,
     lab_required |-> lab,
     student_groups |-> groups,
     possible_faculty |-> pf,
     course_track |-> None,
     program |-> None,
     teaching_practice_required |-> FALSE]

Room(id, type, capacity, avail) ==
    [room_id |-> id, type |-> type, capacity |-> capacity,
     available_slots |-> avail]

Faculty(id, expertise, avail, maxh) ==
    [faculty_id |-> id, expertise |-> expertise, available_slots |-> avail,
     max_hours_per_week |-> maxh]

Group(id, students) ==
    [group_id |-> id, students |-> students,
     course_choices |-> [is_map |-> TRUE, list |-> <<>>, map |-> <<>>],
     credit_requirements |-> EmptyMap]

-----------------------------------------------------------------------------
(* StudentScheduler.__init__ *)

slots == data.time_slots

courses == data.courses

rooms == data.rooms

groups == data.student_groups

\* {c['course_code']: c for c in self.courses}: the last record of a code wins
course_map ==
    [code \in {c.course_code : c \in Range(courses)} |->
        courses[CHOOSE i \in 1..Len(courses) :
            /\ courses[i].course_code = code
            /\ \A j \in (i + 1)..Len(courses) : courses[j].course_code # code]]


\* _sessions_required rounding the credit hours up instead of truncating
sessions_required_ceil(course) ==
    IF Has(course.sessions_per_week) THEN The(course.sessions_per_week)
    ELSE LET components == Get(course.components, EmptyMap) IN
         IF DOMAIN components # {}
         THEN Max(1, SumSet(DOMAIN components, components))
         ELSE LET credit_hours ==
                      IF Truthy(course.credit_hours) THEN course.credit_hours
                      ELSE course.hours_per_week
              IN IF Truthy(credit_hours) THEN Max(1, (The(credit_hours) + 1) \div 2)
                 ELSE 1

_sessions_required(course) ==
    IF Has(course.sessions_per_week) THEN The(course.sessions_per_week)
    ELSE LET components == Get(course.components, EmptyMap) IN
         IF DOMAIN components # {}
         THEN Max(1, SumSet(DOMAIN components, components))
         ELSE LET credit_hours ==
                      IF Truthy(course.credit_hours) THEN course.credit_hours
                      ELSE course.hours_per_week
              IN IF Truthy(credit_hours) THEN Max(1, IntOf(The(credit_hours)))
                 ELSE 1

requires_lab(c) ==
    LET components == Get(c.components, EmptyMap) IN
    IF Get(c.lab_required, FALSE) THEN TRUE
    ELSE MapGet(components, "practicum", 0) + MapGet(components, "lab", 0) > 0


\* build_vars without the lab filter
build_vars_any_room ==
    {<<t[1].course_code, t[2], t[3].room_id>> :
        t \in Range(courses) \X Range(slots) \X Range(rooms)}

\* keys of self.vars: one boolean variable x[course, slot, room]
build_vars ==
    {<<t[1].course_code, t[2], t[3].room_id>> :
        t \in {u \in Range(courses) \X Range(slots) \X Range(rooms) :
                 ~(requires_lab(u[1]) /\ Get(u[3].type, "theory") # "lab")}}

\* insertion rank of a key in self.vars: courses, then slots, then rooms
VarRank(k) ==
    (IndexOf([i \in 1..Len(courses) |-> courses[i].course_code], k[1])
        * (Len(slots) + 1)
     + IndexOf(slots, k[2])) * (Len(rooms) + 1)
     + IndexOf([i \in 1..Len(rooms) |-> rooms[i].room_id], k[3])

\* number of variables of K that are true in x
Sum(K, x) == Cardinality(K \cap x)

-----------------------------------------------------------------------------
(* StudentScheduler.add_hard_constraints.  V is self.vars (its keys) and x
   the set of variables the solver set to 1. *)

\* sessions per week: sum of the course's variables == needed
SessionsCount(V, x) ==
    \A i \in 1..Len(courses) :
        Sum({k \in V : k[1] = courses[i].course_code}, x)
            = _sessions_required(courses[i])


\* room occupancy without the <= 1 on available cells
RoomOccupancy_unbounded(V, x) ==
    \A i \in 1..Len(rooms) :
        LET rid == rooms[i].room_id
            avail == Get(rooms[i].available_slots, {})
        IN \A s \in Range(slots) :
               s \notin avail => \A k \in V : (k[2] = s /\ k[3] = rid) => k \notin x

\* room occupancy that holds every cell to <= 1, available or not
RoomOccupancy_any_slot(V, x) ==
    \A i \in 1..Len(rooms) :
        \A s \in Range(slots) :
            Sum({k \in V : k[2] = s /\ k[3] = rooms[i].room_id}, x) <= 1

\* room occupancy: unavailable cells are fixed to 0, the others hold <= 1
RoomOccupancy(V, x) ==
    \A i \in 1..Len(rooms) :
        LET rid == rooms[i].room_id
            avail == Get(rooms[i].available_slots, {})
        IN \A s \in Range(slots) :
               IF s \notin avail
               THEN \A k \in V : (k[2] = s /\ k[3] = rid) => k \notin x
               ELSE Sum({k \in V : k[2] = s /\ k[3] = rid}, x) <= 1

\* [c['course_code'] for c in self.courses if gid in c.get('student_groups', [])]
group_courses(gid) ==
    {c.course_code : c \in {d \in Range(courses) : gid \in Range(d.student_groups)}}


\* group conflicts with the bound off by one
GroupConflicts_two(V, x) ==
    \A i \in 1..Len(groups) :
        \A s \in Range(slots) :
            Sum({k \in V : k[1] \in group_courses(groups[i].group_id) /\ k[2] = s}, x)
                <= 2

\* group conflicts: a group of the master list has <= 1 course per slot
GroupConflicts(V, x) ==
    \A i \in 1..Len(groups) :
        \A s \in Range(slots) :
            Sum({k \in V : k[1] \in group_courses(groups[i].group_id) /\ k[2] = s}, x)
                <= 1


\* non-adjacency that looks at one room at a time
NoConsecutive_per_room(V, x) ==
    \A code \in DOMAIN course_map :
        \A i \in 1..Len(rooms) :
            LET room_vars == {k \in V : k[1] = code /\ k[3] = rooms[i].room_id}
            IN \A k1, k2 \in room_vars :
                   (DayOf(k1[2]) = DayOf(k2[2]) /\ TimeOf(k2[2]) = TimeOf(k1[2]) + 1)
                       => ~(k1 \in x /\ k2 \in x)

\* the same course is not in two consecutive hours of one day
NoConsecutive(V, x) ==
    \A code \in DOMAIN course_map :
        LET course_vars == {k \in V : k[1] = code}
            days == {DayOf(k[2]) : k \in course_vars}
            times(day) == {TimeOf(k[2]) : k \in {j \in course_vars : DayOf(j[2]) = day}}
            at(day, t) == {k \in course_vars : DayOf(k[2]) = day /\ TimeOf(k[2]) = t}
        IN Cardinality(course_vars) >= 2 =>
               \A day \in days : \A t \in times(day) :
                   (t + 1) \in times(day) =>
                       Sum(at(day, t), x) + Sum(at(day, t + 1), x) <= 1

add_hard_constraints(V, x) ==
    /\ SessionsCount(V, x)
    /\ RoomOccupancy(V, x)
    /\ GroupConflicts(V, x)
    /\ NoConsecutive(V, x)

-----------------------------------------------------------------------------
(* StudentScheduler.add_soft_objective.  The auxiliary booleans are given
   as the sets of their keys that are 1. *)

Bit(key, ones) == IF key \in ones THEN 1 ELSE 0

\* consec_<course>_<s1>_<s2>: s2 after s1 in the master list, same day,
\* next hour, for a course with at least two variables
ConsecKeys(V) ==
    {<<code, s1, s2>> \in (DOMAIN course_map) \X Range(slots) \X Range(slots) :
        /\ Cardinality({k \in V : k[1] = code}) >= 2
        /\ \E k \in V : k[1] = code /\ k[2] = s1
        /\ \E k \in V : k[1] = code /\ k[2] = s2
        /\ IndexOf(slots, s1) < IndexOf(slots, s2)
        /\ DayOf(s1) = DayOf(s2)
        /\ TimeOf(s2) - TimeOf(s1) = 1}

ConsecConstraints(V, keys, x, consec) ==
    \A key \in keys :
        LET both_used == Bit(key, consec)
            vars1 == {k \in V : k[1] = key[1] /\ k[2] = key[2]}
            vars2 == {k \in V : k[1] = key[1] /\ k[2] = key[3]}
            s1_sum == Sum(vars1, x)
            s2_sum == Sum(vars2, x)
        IN /\ both_used >= s1_sum - Cardinality(vars1) + 1
           /\ both_used >= s2_sum - Cardinality(vars2) + 1
           /\ both_used <= s1_sum
           /\ both_used <= s2_sum

\* variables of the group's courses in slots of the day
day_vars(V, gid, day) ==
    {k \in V : k[1] \in group_courses(gid) /\ DayOf(k[2]) = day}

\* day_<gid>_<day>, created when the group has a variable on the day
DayKeys(V) ==
    {<<gid, day>> \in {g.group_id : g \in Range(groups)} \X Days :
        day_vars(V, gid, day) # {}}

DayConstraints(V, keys, x, day_used) ==
    \A key \in keys :
        LET used == Bit(key, day_used)
            dv == day_vars(V, key[1], key[2])
        IN /\ used >= Sum(dv, x) - Cardinality(dv) + 1
           /\ used <= Sum(dv, x)

\* days_<gid>_<d1>_<d2> for the day pairs of a group more than 2 days apart
DayPairKeys(V) ==
    {<<gid, d1, d2>> \in {g.group_id : g \in Range(groups)} \X Days \X Days :
        /\ <<gid, d1>> \in DayKeys(V)
        /\ <<gid, d2>> \in DayKeys(V)
        /\ day_order[d1] < day_order[d2]
        /\ day_order[d2] - day_order[d1] > 2}

DayPairConstraints(keys, day_used, both_days) ==
    \A key \in keys :
        LET both == Bit(key, both_days)
            u1 == Bit(<<key[1], key[2]>>, day_used)
            u2 == Bit(<<key[1], key[3]>>, day_used)
        IN /\ both >= u1 + u2 - 1
           /\ both <= u1
           /\ both <= u2

\* the expression handed to model.Minimize
Objective(s) ==
    Cardinality({k \in s.x : IsLate(k[2])})
    + 50 * Cardinality(s.consec)
    + SumSet(s.both_days,
             [key \in s.both_days |-> day_order[key[3]] - day_order[key[2]]])

RECURSIVE Candidates(_, _)
\* the assignments of x that give each of the first n courses as many
\* true variables as it requires: every other assignment fails SessionsCount
Candidates(V, n) ==
    IF n = 0 THEN {{}}
    ELSE LET mine == {k \in V : k[1] = courses[n].course_code}
             picks == {y \in SUBSET mine :
                          Cardinality(y) = _sessions_required(courses[n])}
         IN {y \cup rest : y \in picks, rest \in Candidates(V, n - 1)}

\* every assignment of the model's variables that satisfies its constraints
Solutions ==
    LET V == build_vars
        CK == ConsecKeys(V)
        DK == DayKeys(V)
        PK == DayPairKeys(V)
    IN UNION {
         UNION {
           UNION {
             {[x |-> x, consec |-> cu, day_used |-> du, both_days |-> bd] :
                 bd \in {b \in SUBSET PK : DayPairConstraints(PK, du, b)}}
             : du \in {u \in SUBSET DK : DayConstraints(V, DK, x, u)}}
           : cu \in {c \in SUBSET CK : ConsecConstraints(V, CK, x, c)}}
         : x \in {y \in Candidates(V, Len(courses)) : add_hard_constraints(V, y)}}

NoSol == [x |-> {}, consec |-> {}, day_used |-> {}, both_days |-> {}]

-----------------------------------------------------------------------------
(* StudentScheduler.solve: result construction *)

\* the dict appended to assignments[s] for a variable that is 1
Placement(k) ==
    [course_code |-> k[1],
     course_name |-> course_map[k[1]].name,
     room_id |-> k[3],
     course_track |-> course_map[k[1]].course_track,
     credit_hours |-> course_map[k[1]].credit_hours,
     components |-> course_map[k[1]].components]

\* the placements of a slot left in the insertion order of self.vars
SlotAssigns_unsorted(x, s) ==
    LET here == {k \in x : k[2] = s}
        rank == [k \in here |-> VarRank(k)]
        keys == SeqOfSet(here, rank)
    IN [j \in 1..Len(keys) |-> Placement(keys[j])]

\* sorted(assignments[slot], key=course_code): stable, so variables of one
\* course keep their insertion order
SlotAssigns(x, s) ==
    LET here == {k \in x : k[2] = s}
        span == (Len(courses) + 1) * (Len(slots) + 1) * (Len(rooms) + 1)
        rank == [k \in here |-> CodeRank[k[1]] * span + VarRank(k)]
        keys == SeqOfSet(here, rank)
    IN [j \in 1..Len(keys) |-> Placement(keys[j])]

\* ordered_assignments: occupied slots in master order
ordered_assignments(x) ==
    LET Occupied(s) == \E k \in x : k[2] = s
        occ == SelectSeq(slots, Occupied)
    IN [i \in 1..Len(occ) |-> [slot |-> occ[i], assigns |-> SlotAssigns(x, occ[i])]]

\* next((x for x in self.groups if x['group_id'] == g), None), as an option
group_obj(g) ==
    IF \E i \in 1..Len(groups) : groups[i].group_id = g
    THEN Some(groups[CHOOSE i \in 1..Len(groups) :
                  /\ groups[i].group_id = g
                  /\ \A j \in 1..(i - 1) : groups[j].group_id # g])
    ELSE None

\* a loop that writes the course to every student of the master data
WritesStudent_everyone(a, stu) ==
    \E g \in Range(groups) : stu \in Range(g.students)

\* whether the loop over placement a writes student_tt[stu][s]
WritesStudent(a, stu) ==
    \E g \in Range(course_map[a.course_code].student_groups) :
        /\ Has(group_obj(g))
        /\ stu \in Range(The(group_obj(g)).students)

\* student_tt: a later placement of the slot overwrites an earlier one
student_tt(ordered) ==
    LET Writers(i, stu) ==
            {j \in 1..Len(ordered[i].assigns) : WritesStudent(ordered[i].assigns[j], stu)}
        Students == UNION {Range(g.students) : g \in Range(groups)}
        Keyed == {stu \in Students : \E i \in 1..Len(ordered) : Writers(i, stu) # {}}
        Last(i, stu) == CHOOSE j \in Writers(i, stu) : \A o \in Writers(i, stu) : o <= j
    IN [stu \in Keyed |->
           [s \in {ordered[i].slot : i \in {n \in 1..Len(ordered) : Writers(n, stu) # {}}} |->
               LET i == CHOOSE n \in 1..Len(ordered) : ordered[n].slot = s
               IN ordered[i].assigns[Last(i, stu)].course_code]]

SolveResult(x) ==
    LET ordered == ordered_assignments(x)
    IN [assignments |-> ordered, student_timetables |-> student_tt(ordered)]

NoReturn == [result |-> None, err |-> None]

-----------------------------------------------------------------------------
(* FacultyOptimizer *)

DefaultMaxHours == 40

\* keys of self.faculty, in master order
faculty_ids == [i \in 1..Len(data.faculty) |-> data.faculty[i].faculty_id]

\* self.faculty[fid]
faculty_obj(fid) ==
    data.faculty[CHOOSE i \in 1..Len(data.faculty) :
        /\ data.faculty[i].faculty_id = fid
        /\ \A j \in (i + 1)..Len(data.faculty) : data.faculty[j].faculty_id # fid]

\* locals of assign_faculty before it is called
FoIdle == [load |-> <<>>, faculty_tt |-> <<>>, assignments |-> <<>>, si |-> 0, ai |-> 0]

\* load = {fid: 0}, faculty_tt = {fid: {}}, assignments = {}
FoStart ==
    [load |-> [fid \in Range(faculty_ids) |-> 0],
     faculty_tt |-> [fid \in Range(faculty_ids) |-> EmptyMap],
     assignments |-> <<>>,
     si |-> 1, ai |-> 1]

\* a candidate list that is the whole master faculty list, last first
candidates_everyone(code) ==
    [i \in 1..Len(faculty_ids) |-> faculty_ids[Len(faculty_ids) + 1 - i]]

\* course.possible_faculty, then the faculty with expertise not yet listed
candidates(code) ==
    LET pf == IF code \in DOMAIN course_map
              THEN course_map[code].possible_faculty ELSE <<>>
        Expert(fid) == code \in faculty_obj(fid).expertise /\ fid \notin Range(pf)
    IN pf \o SelectSeq(faculty_ids, Expert)


\* eligibility with the load test off by one
Eligible_load_off_by_one(L, fid, s) ==
    /\ s \in Get(faculty_obj(fid).available_slots, {})
    /\ s \notin DOMAIN L.faculty_tt[fid]
    /\ ~(L.load[fid] > Get(faculty_obj(fid).max_hours_per_week, DefaultMaxHours))

\* eligibility without the availability test
Eligible_any_slot(L, fid, s) ==
    /\ s \notin DOMAIN L.faculty_tt[fid]
    /\ ~(L.load[fid] >= Get(faculty_obj(fid).max_hours_per_week, DefaultMaxHours))

\* the three tests a faculty passes to be eligible for slot s
Eligible(L, fid, s) ==
    /\ s \in Get(faculty_obj(fid).available_slots, {})
    /\ s \notin DOMAIN L.faculty_tt[fid]
    /\ ~(L.load[fid] >= Get(faculty_obj(fid).max_hours_per_week, DefaultMaxHours))

\* the candidate loop with <= in place of <: the last of the least loaded
LeastLoaded_last_tie(L, cands, s) ==
    LET ok == {i \in 1..Len(cands) : Eligible(L, cands[i], s)}
    IN IF ok = {} THEN None
       ELSE Some(cands[CHOOSE i \in ok : \A j \in ok :
                     \/ L.load[cands[i]] < L.load[cands[j]]
                     \/ L.load[cands[i]] = L.load[cands[j]] /\ i >= j])

\* the candidate loop: the first eligible candidate of strictly lowest load
LeastLoaded(L, cands, s) ==
    LET ok == {i \in 1..Len(cands) : Eligible(L, cands[i], s)}
    IN IF ok = {} THEN None
       ELSE Some(cands[CHOOSE i \in ok : \A j \in ok :
                     \/ L.load[cands[i]] < L.load[cands[j]]
                     \/ L.load[cands[i]] = L.load[cands[j]] /\ i <= j])

\* a fallback that keeps the last eligible faculty of the master list
Fallback_last(L, s) ==
    LET ok == {i \in 1..Len(faculty_ids) : Eligible(L, faculty_ids[i], s)}
    IN IF ok = {} THEN None
       ELSE Some(faculty_ids[CHOOSE i \in ok : \A j \in ok : i >= j])

\* fallback: the first faculty of the master list that is eligible
Fallback(L, s) ==
    LET ok == {i \in 1..Len(faculty_ids) : Eligible(L, faculty_ids[i], s)}
    IN IF ok = {} THEN None
       ELSE Some(faculty_ids[CHOOSE i \in ok : \A j \in ok : i <= j])

choose_faculty(L, code, s) ==
    LET chosen == LeastLoaded(L, candidates(code), s)
    IN IF chosen = None THEN Fallback(L, s) ELSE chosen

\* self.faculty[fid] raises KeyError for a candidate outside the master list
RaisesKeyError(code) == \E fid \in Range(candidates(code)) : fid \notin Range(faculty_ids)

\* dict(a) with faculty_id added
Enriched(a, chosen) ==
    [course_code |-> a.course_code, course_name |-> a.course_name,
     room_id |-> a.room_id, course_track |-> a.course_track,
     credit_hours |-> a.credit_hours, components |-> a.components,
     faculty_id |-> chosen]

\* one iteration that records the timetable entry without counting it
assign_one_uncounted(L, input) ==
    LET s == input[L.si].slot
        a == input[L.si].assigns[L.ai]
        chosen == choose_faculty(L, a.course_code, s)
        entry == Enriched(a, chosen)
        last == L.ai = Len(input[L.si].assigns)
    IN [load |-> L.load,
        faculty_tt |-> IF chosen = None THEN L.faculty_tt
                       ELSE [L.faculty_tt EXCEPT ![The(chosen)] =
                                [t \in DOMAIN @ \cup {s} |->
                                    IF t = s THEN a.course_code ELSE @[t]]],
        assignments |-> IF L.ai = 1
                        THEN Append(L.assignments, [slot |-> s, assigns |-> <<entry>>])
                        ELSE [L.assignments EXCEPT ![Len(L.assignments)].assigns =
                                 Append(@, entry)],
        si |-> IF last THEN L.si + 1 ELSE L.si,
        ai |-> IF last THEN 1 ELSE L.ai + 1]

\* one iteration that puts the new entry at the head of its slot's list
assign_one_prepend(L, input) ==
    LET s == input[L.si].slot
        a == input[L.si].assigns[L.ai]
        chosen == choose_faculty(L, a.course_code, s)
        entry == Enriched(a, chosen)
        last == L.ai = Len(input[L.si].assigns)
    IN [load |-> IF chosen = None THEN L.load
                 ELSE [L.load EXCEPT ![The(chosen)] = @ + 1],
        faculty_tt |-> IF chosen = None THEN L.faculty_tt
                       ELSE [L.faculty_tt EXCEPT ![The(chosen)] =
                                [t \in DOMAIN @ \cup {s} |->
                                    IF t = s THEN a.course_code ELSE @[t]]],
        assignments |-> IF L.ai = 1
                        THEN Append(L.assignments, [slot |-> s, assigns |-> <<entry>>])
                        ELSE [L.assignments EXCEPT ![Len(L.assignments)].assigns =
                                 <<entry>> \o @],
        si |-> IF last THEN L.si + 1 ELSE L.si,
        ai |-> IF last THEN 1 ELSE L.ai + 1]

\* one iteration of the inner loop, on placement ai of input slot si
assign_one(L, input) ==
    LET s == input[L.si].slot
        a == input[L.si].assigns[L.ai]
        chosen == choose_faculty(L, a.course_code, s)
        entry == Enriched(a, chosen)
        last == L.ai = Len(input[L.si].assigns)
    IN [load |-> IF chosen = None THEN L.load
                 ELSE [L.load EXCEPT ![The(chosen)] = @ + 1],
        faculty_tt |-> IF chosen = None THEN L.faculty_tt
                       ELSE [L.faculty_tt EXCEPT ![The(chosen)] =
                                [t \in DOMAIN @ \cup {s} |->
                                    IF t = s THEN a.course_code ELSE @[t]]],
        assignments |-> IF L.ai = 1
                        THEN Append(L.assignments, [slot |-> s, assigns |-> <<entry>>])
                        ELSE [L.assignments EXCEPT ![Len(L.assignments)].assigns =
                                 Append(@, entry)],
        si |-> IF last THEN L.si + 1 ELSE L.si,
        ai |-> IF last THEN 1 ELSE L.ai + 1]

-----------------------------------------------------------------------------
(* validator.py.  A timetable is the ordered dict slot -> placements, as a
   sequence of [slot, assigns].  A violation message is kept as its kind
   and the values formatted into it. *)

Violation(kind, ids, nums) == [kind |-> kind, ids |-> ids, nums |-> nums]

RECURSIVE Flatten(_)
\* the concatenation of a sequence of sequences
Flatten(qq) == IF qq = <<>> THEN <<>> ELSE Head(qq) \o Flatten(Tail(qq))

\* the messages of a loop over every placement of every slot, in order
PerPlacement(timetable, Msgs(_, _)) ==
    Flatten([i \in 1..Len(timetable) |->
        Flatten([j \in 1..Len(timetable[i].assigns) |-> Msgs(i, j)])])

\* a printable form of an optional id (None when missing)
Show(o) == Get(o, "None")

_required_sessions(course) ==
    IF Has(course.sessions_per_week) THEN Some(The(course.sessions_per_week))
    ELSE LET components == Get(course.components, EmptyMap) IN
         IF DOMAIN components # {}
         THEN Some(Max(1, SumSet(DOMAIN components, components)))
         ELSE LET credit_hours ==
                      IF Truthy(course.credit_hours) THEN course.credit_hours
                      ELSE course.hours_per_week
              IN IF Truthy(credit_hours)
                 THEN Some(Max(1, IntOf(The(credit_hours))))
                 ELSE None

\* {r['room_id']: r for r in data['rooms']}[rid]
room_obj(rid) ==
    rooms[CHOOSE i \in 1..Len(rooms) :
        /\ rooms[i].room_id = rid
        /\ \A j \in (i + 1)..Len(rooms) : rooms[j].room_id # rid]

room_ids == {r.room_id : r \in Range(rooms)}

\* {g['group_id']: len(g.get('students', []))}.get(gid, 0)
group_size(gid) ==
    IF \E g \in Range(groups) : g.group_id = gid
    THEN Len(groups[CHOOSE i \in 1..Len(groups) :
                 /\ groups[i].group_id = gid
                 /\ \A j \in (i + 1)..Len(groups) : groups[j].group_id # gid].students)
    ELSE 0

\* courses.get(code, {}).get('student_groups', [])
groups_for_course(code) ==
    IF code \in DOMAIN course_map THEN course_map[code].student_groups ELSE <<>>

\* slot existence
SlotChecks(timetable) ==
    Flatten([i \in 1..Len(timetable) |->
        IF timetable[i].slot \notin Range(slots)
        THEN <<Violation("slot_not_in_master", <<timetable[i].slot>>, <<>>)>>
        ELSE <<>>])

\* room double-book, availability and capacity
RoomChecks(timetable) ==
    LET Msgs(i, j) ==
            LET s == timetable[i].slot
                a == timetable[i].assigns[j]
                rid == a.room_id
                code == a.course_code
                \* earlier placements of the slot that entered seen_rooms
                seen == {n \in 1..(j - 1) :
                            /\ timetable[i].assigns[n].room_id = rid
                            /\ rid \in room_ids}
                first == CHOOSE n \in seen : \A o \in seen : n <= o
                total_students ==
                    SumSet(1..Len(groups_for_course(code)),
                           [n \in 1..Len(groups_for_course(code)) |->
                               group_size(groups_for_course(code)[n])])
            IN IF rid \notin room_ids
               THEN <<Violation("room_not_found", <<rid, s>>, <<>>)>>
               ELSE (IF s \notin Get(room_obj(rid).available_slots, {})
                     THEN <<Violation("room_not_available", <<rid, s, code>>, <<>>)>>
                     ELSE <<>>)
                 \o (IF seen # {}
                     THEN <<Violation("room_double_booked",
                              <<rid, s, timetable[i].assigns[first].course_code, code>>,
                              <<>>)>>
                     ELSE <<>>)
                 \o (IF Has(room_obj(rid).capacity)
                        /\ total_students > The(room_obj(rid).capacity)
                     THEN <<Violation("room_capacity", <<rid, code>>,
                              <<The(room_obj(rid).capacity), total_students>>)>>
                     ELSE <<>>)
    IN PerPlacement(timetable, Msgs)

\* every (slot, placement) of the timetable in iteration order
FlatPlacements(timetable) ==
    Flatten([i \in 1..Len(timetable) |->
        [j \in 1..Len(timetable[i].assigns) |->
            [slot |-> timetable[i].slot, a |-> timetable[i].assigns[j]]]])

\* faculty_load after the loop: the counted placements of each faculty
faculty_load(timetable) ==
    LET flat == FlatPlacements(timetable)
        counted == {n \in 1..Len(flat) :
                       /\ Has(flat[n].a.faculty_id)
                       /\ The(flat[n].a.faculty_id) \in Range(faculty_ids)}
        fids == {The(flat[n].a.faculty_id) : n \in counted}
    IN [fid \in fids |-> Cardinality({n \in counted : flat[n].a.faculty_id = Some(fid)})]

\* keys of faculty_load in insertion order
faculty_load_order(timetable) ==
    LET flat == FlatPlacements(timetable)
        fids == DOMAIN faculty_load(timetable)
        rank == [fid \in fids |->
                    CHOOSE n \in 1..Len(flat) :
                        /\ flat[n].a.faculty_id = Some(fid)
                        /\ \A o \in 1..(n - 1) : flat[o].a.faculty_id # Some(fid)]
    IN SeqOfSet(fids, rank)

\* faculty double-book, availability and weekly load
FacultyChecks(timetable) ==
    LET Msgs(i, j) ==
            LET s == timetable[i].slot
                a == timetable[i].assigns[j]
                fid == a.faculty_id
                code == a.course_code
                seen == {n \in 1..(j - 1) :
                            /\ timetable[i].assigns[n].faculty_id = fid
                            /\ The(fid) \in Range(faculty_ids)}
                first == CHOOSE n \in seen : \A o \in seen : n <= o
            IN IF ~Has(fid)
               THEN <<Violation("no_faculty_assigned", <<code, s>>, <<>>)>>
               ELSE IF The(fid) \notin Range(faculty_ids)
               THEN <<Violation("faculty_not_in_master", <<The(fid), s>>, <<>>)>>
               ELSE (IF s \notin Get(faculty_obj(The(fid)).available_slots, {})
                     THEN <<Violation("faculty_not_available", <<The(fid), s, code>>, <<>>)>>
                     ELSE <<>>)
                 \o (IF seen # {}
                     THEN <<Violation("faculty_double_booked",
                              <<The(fid), s, timetable[i].assigns[first].course_code, code>>,
                              <<>>)>>
                     ELSE <<>>)
        order == faculty_load_order(timetable)
        load == faculty_load(timetable)
        LoadMsg(fid) ==
            LET max_hours == faculty_obj(fid).max_hours_per_week
            IN IF Truthy(max_hours) /\ load[fid] > The(max_hours)
               THEN <<Violation("faculty_exceeds_load", <<fid>>, <<load[fid], The(max_hours)>>)>>
               ELSE <<>>
    IN PerPlacement(timetable, Msgs)
       \o Flatten([n \in 1..Len(order) |-> LoadMsg(order[n])])

\* group conflicts
GroupChecks(timetable) ==
    LET Msgs(i, j) ==
            LET s == timetable[i].slot
                code == timetable[i].assigns[j].course_code
                gs == groups_for_course(code)
                GroupsAt(n) == groups_for_course(timetable[i].assigns[n].course_code)
                \* the code group_seen[g] holds when entry m of gs is reached
                earlier(m) == {n \in 1..(j - 1) : gs[m] \in Range(GroupsAt(n))}
                again(m) == \E o \in 1..(m - 1) : gs[o] = gs[m]
                seen_code(m) ==
                    IF earlier(m) # {}
                    THEN timetable[i].assigns[
                             CHOOSE n \in earlier(m) : \A o \in earlier(m) : n <= o].course_code
                    ELSE code
            IN Flatten([m \in 1..Len(gs) |->
                   IF earlier(m) # {} \/ again(m)
                   THEN <<Violation("group_multiple_classes",
                            <<gs[m], s, seen_code(m), code>>, <<>>)>>
                   ELSE <<>>])
    IN PerPlacement(timetable, Msgs)

\* group_course_assignments.get(gid, set())
group_course_assignments(timetable, gid) ==
    {p.a.course_code :
        p \in {q \in Range(FlatPlacements(timetable)) :
                 gid \in Range(groups_for_course(q.a.course_code))}}

\* courses.keys() in insertion order
course_codes_order ==
    LET codes == [i \in 1..Len(courses) |-> courses[i].course_code]
        FirstAt(i) == \A j \in 1..(i - 1) : codes[j] # codes[i]
        idx == {i \in 1..Len(codes) : FirstAt(i)}
        seqidx == SeqOfSet(idx, [i \in idx |-> i])
    IN [n \in 1..Len(seqidx) |-> codes[seqidx[n]]]

\* sessions count
SessionChecks(timetable) ==
    LET flat == FlatPlacements(timetable)
        scheduled(code) == Cardinality({n \in 1..Len(flat) : flat[n].a.course_code = code})
        Msg(code) ==
            LET req == _required_sessions(course_map[code])
            IN IF Has(req) /\ scheduled(code) # The(req)
               THEN <<Violation("sessions_mismatch", <<code>>, <<The(req), scheduled(code)>>)>>
               ELSE <<>>
    IN Flatten([n \in 1..Len(course_codes_order) |-> Msg(course_codes_order[n])])

\* str.lower() on the track labels in use
Lower(label) ==
    CASE label \in {"major", "Major"} -> "major"
      [] label \in {"minor", "Minor"} -> "minor"
      [] label \in {"skill", "Skill"} -> "skill"
      [] label \in {"elective", "Elective"} -> "elective"
      [] OTHER -> label

\* course_credits that reads sessions_per_week before credit_hours
course_credits_sessions_first(code) ==
    LET cobj == course_map[code]
    IN Get({2 * n : n \in cobj.sessions_per_week},
           Get(cobj.credit_hours, Get(cobj.hours_per_week, 2)))

\* course_credits[code], in half hours: credit_hours, else sessions_per_week,
\* else hours_per_week, else 1
course_credits(code) ==
    LET cobj == course_map[code]
    IN Get(cobj.credit_hours,
           Get({2 * n : n \in cobj.sessions_per_week},
               Get(cobj.hours_per_week, 2)))

\* credit and track compliance of one group
GroupCreditChecks(timetable, group) ==
    LET gid == group.group_id
        reqs == group.credit_requirements
        assigned_courses == group_course_assignments(timetable, gid)
        \* iteration order of the set of assigned courses
        assigned_order == SeqOfSet(assigned_courses, [c \in assigned_courses |-> CodeRank[c]])
        choices == group.course_choices
        \* track_overrides.get(course): the last label listing the course
        labels(course) == {n \in 1..Len(choices.map) : course \in Range(choices.map[n].courses)}
        override(course) ==
            IF choices.is_map /\ labels(course) # {}
            THEN Some(Lower(choices.map[CHOOSE n \in labels(course) :
                                            \A o \in labels(course) : o <= n].label))
            ELSE None
        allowed == IF choices.is_map
                   THEN UNION {Range(choices.map[n].courses) : n \in 1..Len(choices.map)}
                   ELSE Range(choices.list)
        credit(course) == IF course \in DOMAIN course_map THEN course_credits(course) ELSE 0
        track(course) ==
            IF Has(override(course)) /\ The(override(course)) # ""
            THEN The(override(course))
            ELSE Lower(IF course \in DOMAIN course_map
                          /\ Has(course_map[course].course_track)
                          /\ The(course_map[course].course_track) # ""
                       THEN The(course_map[course].course_track) ELSE "elective")
        totals(key) ==
            SumSet(assigned_courses,
                   [c \in assigned_courses |->
                       (IF key = "total" THEN credit(c) ELSE 0)
                       + (IF track(c) = key THEN credit(c) ELSE 0)])
        Required(key) == key \in DOMAIN reqs /\ reqs[key] # 0
        TrackMsg(key, tr) ==
            IF Required(key) /\ totals(tr) < reqs[key]
            THEN <<Violation("credits_below_required", <<gid, tr>>, <<totals(tr), reqs[key]>>)>>
            ELSE <<>>
    IN IF DOMAIN reqs = {} THEN <<>>
       ELSE (IF Required("min") /\ totals("total") < reqs["min"]
             THEN <<Violation("credits_below_minimum", <<gid>>, <<totals("total"), reqs["min"]>>)>>
             ELSE <<>>)
         \o (IF Required("max") /\ totals("total") > reqs["max"]
             THEN <<Violation("credits_exceed_maximum", <<gid>>, <<totals("total"), reqs["max"]>>)>>
             ELSE <<>>)
         \o TrackMsg("major_min", "major")
         \o TrackMsg("minor_min", "minor")
         \o TrackMsg("skill_min", "skill")
         \o (IF allowed # {}
             THEN Flatten([n \in 1..Len(assigned_order) |->
                      IF assigned_order[n] \notin allowed
                      THEN <<Violation("outside_declared_choices", <<gid, assigned_order[n]>>, <<>>)>>
                      ELSE <<>>])
             ELSE <<>>)

\* groups.values() in insertion order, the last record of an id winning
group_objs_order ==
    LET ids == [i \in 1..Len(groups) |-> groups[i].group_id]
        idx == {i \in 1..Len(ids) : \A j \in 1..(i - 1) : ids[j] # ids[i]}
        seqidx == SeqOfSet(idx, [i \in idx |-> i])
        LastOf(gid) == groups[CHOOSE i \in 1..Len(groups) :
                          /\ ids[i] = gid
                          /\ \A j \in (i + 1)..Len(groups) : ids[j] # gid]
    IN [n \in 1..Len(seqidx) |-> LastOf(ids[seqidx[n]])]

CreditChecks(timetable) ==
    Flatten([n \in 1..Len(group_objs_order) |->
        GroupCreditChecks(timetable, group_objs_order[n])])

\* teaching practice window compliance
PracticeChecks(timetable) ==
    LET practice_windows == Get(data.teaching_practice_windows, EmptyMap)
        window(key) == IF key \in DOMAIN practice_windows
                       THEN Some(practice_windows[key]) ELSE None
        Msgs(i, j) ==
            LET s == timetable[i].slot
                code == timetable[i].assigns[j].course_code
                known == code \in DOMAIN course_map
                target == groups_for_course(code)
                program == IF known THEN course_map[code].program ELSE None
                \* window_slots.get(gid) or window_slots.get(program)
                allowed_slots(gid) ==
                    IF Has(window(gid)) /\ The(window(gid)) # {}
                    THEN window(gid)
                    ELSE IF Has(program) THEN window(The(program)) ELSE None
            IN IF ~(known /\ course_map[code].teaching_practice_required)
               THEN <<>>
               ELSE Flatten([m \in 1..Len(target) |->
                        IF Has(allowed_slots(target[m])) /\ s \notin The(allowed_slots(target[m]))
                        THEN <<Violation("outside_practice_window", <<code, target[m], s>>, <<>>)>>
                        ELSE <<>>])
    IN IF DOMAIN practice_windows = {} THEN <<>>
       ELSE PerPlacement(timetable, Msgs)

\* a validator that returns at the first kind of check that reports
validate_timetable_short_circuit(timetable) ==
    LET kinds == <<SlotChecks(timetable), RoomChecks(timetable),
                   FacultyChecks(timetable), GroupChecks(timetable),
                   SessionChecks(timetable), CreditChecks(timetable),
                   PracticeChecks(timetable)>>
        reporting == {n \in 1..Len(kinds) : kinds[n] # <<>>}
    IN IF reporting = {} THEN <<>>
       ELSE kinds[CHOOSE n \in reporting : \A o \in reporting : n <= o]

validate_timetable(timetable) ==
    SlotChecks(timetable)
    \o RoomChecks(timetable)
    \o FacultyChecks(timetable)
    \o GroupChecks(timetable)
    \o SessionChecks(timetable)
    \o CreditChecks(timetable)
    \o PracticeChecks(timetable)

-----------------------------------------------------------------------------
(* The master data the model is run on *)

MaxSessions == 2

MaxVars == 8

SlotLists ==
    {<<"Mon_09">>, <<"Mon_09", "Mon_10">>, <<"Mon_10", "Mon_09">>,
     <<"Mon_09", "Thu_17">>, <<"Mon_09", "Mon_10", "Mon_11">>}

Sess(spw, comps, ch, hpw) ==
    [sessions_per_week |-> spw, components |-> comps,
     credit_hours |-> ch, hours_per_week |-> hpw]

Practicum2 == [n \in {"practicum"} |-> 2]

\* the session-deciding fields of a course; hours are in half hours
SessionSpecs ==
    {Sess(Some(n), None, None, None) : n \in 0..MaxSessions}
    \cup {Sess(None, Some(Practicum2), None, None),
          Sess(Some(1), Some(Practicum2), Some(5), None),
          Sess(None, Some(EmptyMap), Some(5), None),
          Sess(None, None, Some(0), Some(3)),
          Sess(None, None, None, None)}

FirstCourses ==
    {Course("C1", sess, gs, None, <<>>) :
        sess \in SessionSpecs, gs \in {<<>>, <<"G1">>}}
    \cup {Course("C1", Sess(Some(1), None, None, None), <<"GX">>, None, <<>>)}

\* the first course of a two-course list states sessions_per_week alone
PairedCourses ==
    {c \in FirstCourses :
        Has(c.sessions_per_week) /\ ~Has(c.components)}

SecondCourses ==
    {Course("C2", Sess(Some(1), None, None, None), <<"G1">>, None, <<>>),
     Course("C2", Sess(Some(1), None, None, None), <<"G1">>, Some(TRUE), <<>>),
     Course("C2", Sess(Some(1), None, None, None), <<"GX">>, None, <<>>),
     Course("C2", Sess(Some(1), None, None, None), <<"G1">>, None, <<"FX">>)}

CourseLists ==
    {<<c1>> : c1 \in FirstCourses}
    \cup {<<c1, c2>> : c1 \in PairedCourses, c2 \in SecondCourses}
    \cup {<<c2, c1>> : c1 \in PairedCourses,
                       c2 \in {Course("C2", Sess(Some(1), None, None, None),
                                      <<"G1">>, None, <<>>)}}

RoomLists(ts) ==
    LET all == Range(ts)
        r1s == {Room("R1", None, Some(2), Some(all)),
                Room("R1", None, Some(1), Some({ts[1]}))}
        r2s == {Room("R2", Some("theory"), None, Some(all)),
                Room("R2", Some("lab"), None, Some(all)),
                Room("R2", Some("lab"), None, None)}
    IN {<<r1>> : r1 \in r1s} \cup {<<r1, r2>> : r1 \in r1s, r2 \in r2s}

FacultyLists(ts) ==
    {<<Faculty("F1", {"C1", "C2"}, Some(Range(ts)), None)>>,
     <<Faculty("F1", {"C1"}, Some({ts[1]}), Some(1)),
       Faculty("F2", {}, Some(Range(ts)), Some(1))>>}

GroupLists == {<<Group("G1", <<"s1", "s2">>)>>}

MasterData ==
    UNION {{[time_slots |-> ts, courses |-> cs, rooms |-> rs, faculty |-> fs,
             student_groups |-> gs, teaching_practice_windows |-> None] :
               cs \in CourseLists, rs \in RoomLists(ts), fs \in FacultyLists(ts),
               gs \in GroupLists}
           : ts \in SlotLists}

-----------------------------------------------------------------------------
(* DualTimetableManager.generate *)

\* a single request is served: there is no other request
NoConc == [same |-> FALSE, input |-> None, parked |-> None, mid |-> FALSE]

Init ==
    /\ data \in MasterData
    /\ Cardinality(build_vars) <= MaxVars
    /\ pc = "generate"
    /\ status = "NONE"
    /\ sol = NoSol
    /\ baseline = NoReturn
    /\ fo = FoIdle
    /\ violations = <<>>
    /\ calls = <<>>
    /\ ret = NoReturn
    /\ conc = NoConc

\* least value of the objective over a non-empty set of solutions
MinObjective(S) ==
    LET values == {Objective(s) : s \in S}
    IN CHOOSE m \in values : \A v \in values : m <= v

\* ss.solve() found a solution: OPTIMAL for a minimum of the objective,
\* FEASIBLE for any other solution (the time limit ended the search)
SolveOk(S) ==
    /\ S # {}
    /\ \E s \in S :
          /\ status' = IF Objective(s) = MinObjective(S) THEN "OPTIMAL" ELSE "FEASIBLE"
          /\ sol' = s
          /\ baseline' = [result |-> Some(SolveResult(s.x)), err |-> None]
    /\ calls' = Append(calls, "solve")
    /\ pc' = "solved"
    /\ UNCHANGED <<conc, data, fo, violations, ret>>


\* solve without the status test: an infeasible model yields an empty timetable
SolveInfeasible_unchecked(S) ==
    /\ S = {}
    /\ status' = "INFEASIBLE"
    /\ sol' = NoSol
    /\ baseline' = [result |-> Some(SolveResult({})), err |-> None]
    /\ calls' = Append(calls, "solve")
    /\ pc' = "solved"
    /\ UNCHANGED <<conc, data, fo, violations, ret>>

\* ss.solve() found the model infeasible, and generate returns the error
SolveInfeasible(S) ==
    /\ S = {}
    /\ status' = "INFEASIBLE"
    /\ baseline' = [result |-> None,
                    err |-> Some("No feasible student timetable found.")]
    /\ calls' = Append(calls, "solve")
    /\ ret' = [result |-> None,
               err |-> Some(<<"StudentScheduler error: ", The(baseline'.err)>>)]
    /\ pc' = "done"
    /\ UNCHANGED <<conc, data, sol, fo, violations>>

\* ss = StudentScheduler(self.data); baseline, err = ss.solve(); if err: return
Solve ==
    /\ pc = "generate"
    /\ LET S == Solutions
       IN SolveOk(S) \/ SolveInfeasible(S)

\* the timetable handed to assign_faculty
baseline_assignments == The(baseline.result).assignments

\* fo.assign_faculty(baseline_assignments): entry
AssignBegin ==
    /\ pc = "solved"
    /\ fo' = FoStart
    /\ calls' = Append(calls, "assign_faculty")
    /\ pc' = "assign"
    /\ UNCHANGED <<conc, data, status, sol, baseline, violations, ret>>

\* one placement gets its faculty_id
AssignStep ==
    /\ pc = "assign"
    /\ fo.si <= Len(baseline_assignments)
    /\ ~RaisesKeyError(baseline_assignments[fo.si].assigns[fo.ai].course_code)
    /\ fo' = assign_one(fo, baseline_assignments)
    /\ UNCHANGED <<conc, data, pc, status, sol, baseline, violations, calls, ret>>

\* a candidate is not in self.faculty: the KeyError leaves generate
AssignRaise ==
    /\ pc = "assign"
    /\ fo.si <= Len(baseline_assignments)
    /\ RaisesKeyError(baseline_assignments[fo.si].assigns[fo.ai].course_code)
    /\ pc' = "raised"
    /\ UNCHANGED <<conc, data, status, sol, baseline, fo, violations, calls, ret>>

\* generate that turns a non-empty violations list into an error
Validate_strict ==
    /\ pc = "assign"
    /\ fo.si > Len(baseline_assignments)
    /\ violations' = validate_timetable(fo.assignments)
    /\ calls' = Append(calls, "validate_timetable")
    /\ ret' = IF violations' = <<>>
              THEN [result |-> Some([assignments |-> fo.assignments,
                                     student_timetables |-> The(baseline.result).student_timetables,
                                     faculty_timetables |-> fo.faculty_tt,
                                     violations |-> violations']),
                    err |-> None]
              ELSE [result |-> None, err |-> Some(<<"Validation error: ", "violations found">>)]
    /\ pc' = "done"
    /\ UNCHANGED <<conc, data, status, sol, baseline, fo>>

\* assign_faculty returns; generate validates and returns the result
Validate ==
    /\ pc = "assign"
    /\ fo.si > Len(baseline_assignments)
    /\ violations' = validate_timetable(fo.assignments)
    /\ calls' = Append(calls, "validate_timetable")
    /\ ret' = [result |-> Some([assignments |-> fo.assignments,
                               student_timetables |-> The(baseline.result).student_timetables,
                               faculty_timetables |-> fo.faculty_tt,
                               violations |-> violations']),
               err |-> None]
    /\ pc' = "done"
    /\ UNCHANGED <<conc, data, status, sol, baseline, fo>>

\* a second call of the validator that keeps the list of the first call
Revalidate_accumulating ==
    /\ pc = "done"
    /\ Has(ret.result)
    /\ violations' = violations \o validate_timetable(The(ret.result).assignments)
    /\ pc' = "revalidated"
    /\ UNCHANGED <<conc, data, status, sol, baseline, fo, calls, ret>>

\* the caller runs validate_timetable once more on the schedule generate
\* returned, with the same master data
Revalidate ==
    /\ pc = "done"
    /\ Has(ret.result)
    /\ violations' = validate_timetable(The(ret.result).assignments)
    /\ pc' = "revalidated"
    /\ UNCHANGED <<conc, data, status, sol, baseline, fo, calls, ret>>

Next ==
    \/ Solve
    \/ AssignBegin
    \/ AssignStep
    \/ AssignRaise
    \/ Validate
    \/ Revalidate

Spec == Init /\ [][Next]_vars

-----------------------------------------------------------------------------
(* FacultyOptimizer.assign_faculty on its own: any timetable as input *)

MaxCap == 2

FoSlots == <<"Mon_09", "Mon_10", "Mon_11">>

\* an input placement, as StudentScheduler.solve emits them
InputPlacement(code, rid) ==
    [course_code |-> code, course_name |-> None, room_id |-> rid,
     course_track |-> None, credit_hours |-> None, components |-> None]

\* input timetables: slots in any order, one or two placements in each
FoTimetables ==
    LET cells == {<<InputPlacement("C1", "R1")>>,
                  <<InputPlacement("C2", "R2")>>,
                  <<InputPlacement("C1", "R1"), InputPlacement("C2", "R2")>>}
        orders == {<<"Mon_09">>, <<"Mon_09", "Mon_10">>, <<"Mon_10", "Mon_09">>,
                   <<"Mon_09", "Mon_10", "Mon_11">>}
    IN UNION {{[i \in 1..Len(o) |-> [slot |-> o[i], assigns |-> f[i]]] :
                 f \in [1..Len(o) -> cells]} : o \in orders}

FoCourseLists ==
    {<<Course("C1", Sess(None, None, None, None), <<"G1">>, None, pf),
       Course("C2", Sess(None, None, None, None), <<>>, lab, <<>>)>> :
        pf \in {<<>>, <<"F2">>, <<"F2", "F1">>, <<"FX">>},
        lab \in {None, Some(TRUE)}}

FoFacultyLists ==
    LET caps == {None} \cup {Some(n) : n \in 0..MaxCap}
        f1s == {Faculty("F1", ex, Some(av), cap) :
                   ex \in {{"C1"}, {"C1", "C2"}},
                   av \in {Range(FoSlots), {"Mon_10", "Mon_11"}},
                   cap \in caps}
        f2s == {Faculty("F2", ex, av, Some(1)) :
                   ex \in {{}, {"C1"}},
                   av \in {None, Some(Range(FoSlots))}}
    IN {<<f1>> : f1 \in f1s} \cup {<<f1, f2>> : f1 \in f1s, f2 \in f2s}

InitFO ==
    /\ data \in {[time_slots |-> FoSlots, courses |-> cs,
                  rooms |-> <<Room("R1", None, None, Some(Range(FoSlots))),
                              Room("R2", None, None, Some(Range(FoSlots)))>>,
                  faculty |-> fs,
                  student_groups |-> <<Group("G1", <<"s1">>)>>,
                  teaching_practice_windows |-> None] :
                    cs \in FoCourseLists, fs \in FoFacultyLists}
    /\ baseline \in {[result |-> Some([assignments |-> tt,
                                       student_timetables |-> EmptyMap]),
                      err |-> None] : tt \in FoTimetables}
    /\ pc = "assign"
    /\ status = "NONE"
    /\ sol = NoSol
    /\ fo = FoStart
    /\ violations = <<>>
    /\ calls = <<"assign_faculty">>
    /\ ret = NoReturn
    /\ conc = NoConc

NextFO ==
    \/ AssignStep
    \/ AssignRaise
    \/ Validate
    \/ Revalidate

SpecFO == InitFO /\ [][NextFO]_vars

-----------------------------------------------------------------------------
(* Two generate requests served at once.  Each request has its own
   DualTimetableManager, StudentScheduler and FacultyOptimizer, whose
   attributes and locals belong to the request; the variables above hold
   the request that is running, conc.parked the one that waits.  The two
   requests are given the same master data object (conc.same) or two
   different ones. *)

\* what one request owns: its manager's data reference and every local
Locals ==
    [data |-> data, pc |-> pc, status |-> status, sol |-> sol,
     baseline |-> baseline, fo |-> fo, violations |-> violations,
     calls |-> calls, ret |-> ret, input |-> The(conc.input)]

\* master data of the requests: a course of two sessions on two days and two
\* faculty, the first with a cap of one or two
ConcData ==
    {[time_slots |-> <<"Mon_09", "Thu_17">>,
      courses |-> <<Course("C1", Sess(Some(2), None, None, None), <<"G1">>, None, <<>>)>>,
      rooms |-> <<Room("R1", None, Some(cap), Some({"Mon_09", "Thu_17"}))>>,
      faculty |-> fs,
      student_groups |-> <<Group("G1", <<"s1", "s2">>)>>,
      teaching_practice_windows |-> None] :
        cap \in {1, 2},
        fs \in {<<Faculty("F1", {"C1"}, Some({"Mon_09", "Thu_17"}), Some(1)),
                  Faculty("F2", {}, None, None)>>,
                <<Faculty("F1", {"C1"}, Some({"Mon_09", "Thu_17"}), Some(2)),
                  Faculty("F2", {}, Some({"Thu_17"}), None)>>}}

\* the running request and the waiting one are both inside the loop of
\* assign_faculty, each with a placement done and one to do
BothInsideLoop(other) ==
    /\ pc = "assign" /\ fo.assignments # <<>> /\ fo.si <= Len(baseline_assignments)
    /\ other.pc = "assign" /\ other.fo.assignments # <<>>
    /\ other.fo.si <= Len(The(other.baseline.result).assignments)

\* a request that has not started, on master data d
Fresh(d) ==
    [data |-> d, pc |-> "generate", status |-> "NONE", sol |-> NoSol,
     baseline |-> NoReturn, fo |-> FoIdle, violations |-> <<>>,
     calls |-> <<>>, ret |-> NoReturn, input |-> d]

InitConc ==
    /\ data \in ConcData
    /\ pc = "generate"
    /\ status = "NONE"
    /\ sol = NoSol
    /\ baseline = NoReturn
    /\ fo = FoIdle
    /\ violations = <<>>
    /\ calls = <<>>
    /\ ret = NoReturn
    /\ \E d \in ConcData :
          conc = [same |-> (d = data), input |-> Some(data),
                  parked |-> Some(Fresh(d)), mid |-> FALSE]

\* a switch between requests whose faculty load counters are one object
Switch_shared_counters ==
    /\ Has(conc.parked)
    /\ LET other == The(conc.parked)
       IN /\ data' = IF conc.same THEN data ELSE other.data
          /\ pc' = other.pc
          /\ status' = other.status
          /\ sol' = other.sol
          /\ baseline' = other.baseline
          /\ fo' = IF other.fo = FoIdle \/ fo = FoIdle THEN other.fo
                   ELSE [other.fo EXCEPT !.load = fo.load]
          /\ violations' = other.violations
          /\ calls' = other.calls
          /\ ret' = other.ret
          /\ conc' = [same |-> conc.same, input |-> Some(other.input),
                      parked |-> Some(Locals),
                      mid |-> conc.mid \/ BothInsideLoop(other)]

\* the running request is suspended where it stands and the other resumes
\* with what it owns; a shared master data object stays where it is
Switch ==
    /\ Has(conc.parked)
    /\ LET other == The(conc.parked)
       IN /\ data' = IF conc.same THEN data ELSE other.data
          /\ pc' = other.pc
          /\ status' = other.status
          /\ sol' = other.sol
          /\ baseline' = other.baseline
          /\ fo' = other.fo
          /\ violations' = other.violations
          /\ calls' = other.calls
          /\ ret' = other.ret
          /\ conc' = [same |-> conc.same, input |-> Some(other.input),
                      parked |-> Some(Locals),
                      mid |-> conc.mid \/ BothInsideLoop(other)]

NextConc ==
    \/ Solve
    \/ AssignBegin
    \/ AssignStep
    \/ Validate
    \/ Switch

SpecConc == InitConc /\ [][NextConc]_vars

-----------------------------------------------------------------------------
(* Properties of the result of StudentScheduler.solve *)

\* solve returned a result (status OPTIMAL or FEASIBLE)
Solved == Has(baseline.result)

\* the placements solve returned, each with its slot
Placed == Range(FlatPlacements(The(baseline.result).assignments))

\* how many placements of the returned timetable satisfy P
CountPlaced(P(_)) ==
    LET flat == FlatPlacements(The(baseline.result).assignments)
    IN Cardinality({n \in 1..Len(flat) : P(flat[n])})

\* the required-sessions rule as the specification words it
required_sessions(c) ==
    IF Has(c.sessions_per_week) THEN The(c.sessions_per_week)
    ELSE IF Has(c.components) /\ DOMAIN The(c.components) # {}
    THEN Max(1, SumSet(DOMAIN The(c.components), The(c.components)))
    ELSE LET hours == IF Truthy(c.credit_hours) THEN c.credit_hours
                      ELSE c.hours_per_week
         IN IF Has(hours) THEN Max(1, The(hours) \div 2) ELSE 1

\* C1: in every result of solve, each course of the master data has exactly
\* required_sessions(c) placements over all slots and rooms.
C1_SessionCount ==
    Solved =>
        \A c \in Range(courses) :
            LET Mine(p) == p.a.course_code = c.course_code
            IN CountPlaced(Mine) = required_sessions(c)

\* a result in which a course without sessions_per_week and components, of
\* 2.5 credit hours, holds its two placements
C1_Witness ==
    /\ Solved
    /\ \E c \in Range(courses) :
          /\ ~Has(c.sessions_per_week) /\ c.credit_hours = Some(5)
          /\ LET Mine(p) == p.a.course_code = c.course_code
             IN CountPlaced(Mine) = 2

\* C2: in every result of solve, a room holds at most one placement per slot.
C2_RoomUnique ==
    Solved =>
        LET tt == The(baseline.result).assignments
        IN /\ \A i, j \in 1..Len(tt) : tt[i].slot = tt[j].slot => i = j
           /\ \A i \in 1..Len(tt) : \A m, n \in 1..Len(tt[i].assigns) :
                  tt[i].assigns[m].room_id = tt[i].assigns[n].room_id => m = n

\* a result with two placements in one slot, and a room used in two slots
C2_Witness ==
    /\ Solved
    /\ \E p, q \in Placed : p.slot = q.slot /\ p.a.room_id # q.a.room_id
    /\ \E p, q \in Placed : p.slot # q.slot /\ p.a.room_id = q.a.room_id

\* C3: in every result of solve, each placement is in a slot of its room's
\* available_slots; a room without the field receives no placement.
C3_RoomAvailable ==
    Solved =>
        \A p \in Placed :
            \E r \in Range(rooms) :
                /\ r.room_id = p.a.room_id
                /\ Has(r.available_slots)
                /\ p.slot \in The(r.available_slots)

\* a result on master data with a room lacking available_slots and a room
\* available in one slot out of several, the latter used
C3_Witness ==
    /\ Solved
    /\ \E r \in Range(rooms) : ~Has(r.available_slots)
    /\ \E r \in Range(rooms) :
          /\ Has(r.available_slots) /\ The(r.available_slots) # Range(slots)
          /\ \E p \in Placed : p.a.room_id = r.room_id

\* C4: in every result of solve, a student group of the master data has at
\* most one placement per slot among the courses that list it.
C4_GroupNoOverlap ==
    Solved =>
        \A g \in Range(groups) : \A s \in Range(slots) :
            LET Mine(p) ==
                    /\ p.slot = s
                    /\ \E c \in Range(courses) :
                          /\ c.course_code = p.a.course_code
                          /\ g.group_id \in Range(c.student_groups)
            IN CountPlaced(Mine) <= 1

\* a result placing two courses of the same master group
C4_Witness ==
    /\ Solved
    /\ \E g \in Range(groups) : \E p, q \in Placed :
          /\ p.a.course_code # q.a.course_code
          /\ g.group_id \in Range(course_map[p.a.course_code].student_groups)
          /\ g.group_id \in Range(course_map[q.a.course_code].student_groups)

\* C5: in every result of solve, no course is placed in two slots of the same
\* day whose hours differ by one, whatever the rooms.
C5_NoAdjacent ==
    Solved =>
        \A p, q \in Placed :
            (p.a.course_code = q.a.course_code /\ DayOf(p.slot) = DayOf(q.slot))
                => TimeOf(q.slot) # TimeOf(p.slot) + 1

\* a result placing one course twice on a day that has adjacent hours
C5_Witness ==
    /\ Solved
    /\ \E s, t \in Range(slots) : DayOf(s) = DayOf(t) /\ TimeOf(t) = TimeOf(s) + 1
    /\ \E p, q \in Placed :
          /\ p.a.course_code = q.a.course_code
          /\ p.slot # q.slot
          /\ DayOf(p.slot) = DayOf(q.slot)

\* a course requires a lab: lab_required, or practicum + lab > 0
needs_lab(c) ==
    \/ c.lab_required = Some(TRUE)
    \/ /\ Has(c.components)
       /\ MapGet(The(c.components), "practicum", 0)
            + MapGet(The(c.components), "lab", 0) > 0

\* C6: in every result of solve, each placement of a course that requires a
\* lab is in a room of type "lab" (scenario S2: both placements of a course
\* with components {practicum: 2} are in the lab room).
C6_LabRoom ==
    Solved =>
        \A p \in Placed : \A c \in Range(courses) :
            (c.course_code = p.a.course_code /\ needs_lab(c)) =>
                \E r \in Range(rooms) :
                    r.room_id = p.a.room_id /\ r.type = Some("lab")

\* scenario S2: a theory room R1, a lab room R2, and both placements of the
\* course with components {practicum: 2} in R2
C6_Witness ==
    /\ Solved
    /\ \E r \in Range(rooms) : r.room_id = "R1" /\ Get(r.type, "theory") = "theory"
    /\ \E c \in Range(courses) :
          /\ c.components = Some(Practicum2) /\ ~Has(c.sessions_per_week)
          /\ LET Mine(p) == p.a.course_code = c.course_code /\ p.a.room_id = "R2"
             IN CountPlaced(Mine) = 2

-----------------------------------------------------------------------------
(* Properties of FacultyOptimizer.assign_faculty *)

\* the enriched placements built so far, each with its slot
Staffed == FlatPlacements(fo.assignments)

\* how many enriched placements carry faculty fid
LoadOf(fid) ==
    Cardinality({n \in 1..Len(Staffed) : Staffed[n].a.faculty_id = Some(fid)})

\* scenario S5: the input is three placements in three slots, fid is the one
\* candidate of each, is available in each slot and has a cap of 2
ScenarioS5(fid) ==
    LET tt == baseline_assignments
    IN /\ Len(tt) = 3
       /\ \A i \in 1..3 :
             /\ Len(tt[i].assigns) = 1
             /\ ~RaisesKeyError(tt[i].assigns[1].course_code)
             /\ candidates(tt[i].assigns[1].course_code) = <<fid>>
             /\ tt[i].slot \in Get(faculty_obj(fid).available_slots, {})
       /\ faculty_obj(fid).max_hours_per_week = Some(2)

\* C7: after every step of assign_faculty and at its end, a placement's
\* faculty is available in the slot, teaches one placement per slot, and has
\* at most max_hours_per_week (40 when absent) placements; in scenario S5
\* exactly two placements get F1 and the third another faculty or none.
C7_FacultyInvariant ==
    /\ \A n \in 1..Len(Staffed) :
          Has(Staffed[n].a.faculty_id) =>
              LET fid == The(Staffed[n].a.faculty_id)
              IN /\ \E f \in Range(data.faculty) :
                        /\ f.faculty_id = fid
                        /\ Has(f.available_slots)
                        /\ Staffed[n].slot \in The(f.available_slots)
                 /\ \A m \in 1..Len(Staffed) :
                        (Staffed[m].slot = Staffed[n].slot
                         /\ Staffed[m].a.faculty_id = Some(fid)) => m = n
    /\ \A f \in Range(data.faculty) :
          LoadOf(f.faculty_id) <=
              (IF Has(f.max_hours_per_week) THEN The(f.max_hours_per_week) ELSE 40)
    /\ (pc = "done" /\ ScenarioS5("F1")) =>
          /\ LoadOf("F1") = 2
          /\ Len(Staffed) = 3

\* scenario S5 ran to the end: two placements with F1, one with none
C7_Witness ==
    /\ pc = "done"
    /\ ScenarioS5("F1")
    /\ LoadOf("F1") = 2
    /\ \E n \in 1..Len(Staffed) : Staffed[n].a.faculty_id = None

-----------------------------------------------------------------------------
(* Properties of DualTimetableManager.generate *)

\* generate returned a result
Succeeded == pc = "done" /\ Has(ret.result)

\* master data whose courses name groups of the master list only
ValidData ==
    \A c \in Range(courses) :
        Range(c.student_groups) \subseteq {g.group_id : g \in Range(groups)}

CreditKinds ==
    {"credits_below_minimum", "credits_exceed_maximum", "credits_below_required",
     "outside_declared_choices"}

PracticeKinds == {"outside_practice_window"}

\* the kinds of violation present in the returned list
ReturnedKinds ==
    {The(ret.result).violations[n].kind : n \in 1..Len(The(ret.result).violations)}

\* C8 as claimed: on valid master data, the violations generate returns are
\* of the credit and teaching-practice kinds only.
C8_OnlyCreditAndPractice ==
    (Succeeded /\ ValidData) =>
        ReturnedKinds \subseteq (CreditKinds \cup PracticeKinds)

\* C8 amended: on valid master data, the violations generate returns are of
\* the credit and teaching-practice kinds, "capacity insufficient" or
\* "No faculty assigned"; no other room, faculty, group, sessions or slot
\* violation appears.
C8_NoHardViolations ==
    (Succeeded /\ ValidData) =>
        ReturnedKinds \subseteq
            (CreditKinds \cup PracticeKinds
             \cup {"room_capacity", "no_faculty_assigned"})

\* a run on valid master data that returns both tolerated kinds
C8_Witness ==
    /\ Succeeded
    /\ ValidData
    /\ ReturnedKinds = {"room_capacity", "no_faculty_assigned"}

\* scenario S3: slots Mon_09, Mon_10, Mon_11, one room available in all
\* three, one group, one course of that group needing two sessions
ScenarioS3 ==
    /\ slots = <<"Mon_09", "Mon_10", "Mon_11">>
    /\ Len(rooms) = 1
    /\ rooms[1].available_slots = Some(Range(slots))
    /\ Len(groups) = 1
    /\ Len(courses) = 1
    /\ courses[1].student_groups = <<groups[1].group_id>>
    /\ ~requires_lab(courses[1])
    /\ required_sessions(courses[1]) = 2

\* C9: in scenario S3 generate succeeds and places the course exactly in
\* Mon_09 and Mon_11.
C9_ScenarioS3 ==
    (pc = "done" /\ ScenarioS3) =>
        /\ Has(ret.result)
        /\ ret.err = None
        /\ {p.slot : p \in Range(FlatPlacements(The(ret.result).assignments))}
              = {"Mon_09", "Mon_11"}

GenerateError ==
    Some(<<"StudentScheduler error: ", "No feasible student timetable found.">>)

\* C10: generate returns a null result with the StudentScheduler error
\* exactly when the solver status is neither OPTIMAL nor FEASIBLE; then
\* nothing else is returned and neither the faculty optimiser nor the
\* validator has run.
C10_InfeasibleError ==
    pc = "done" =>
        /\ (ret.result = None /\ ret.err = GenerateError)
              <=> status \notin {"OPTIMAL", "FEASIBLE"}
        /\ status \notin {"OPTIMAL", "FEASIBLE"} =>
              /\ ret.result = None
              /\ calls = <<"solve">>
              /\ fo = FoIdle
              /\ violations = <<>>
        /\ status \in {"OPTIMAL", "FEASIBLE"} =>
              Has(ret.result) /\ ret.err = None

\* scenario S4: two courses of one group and a single slot end in the error
C10_Witness ==
    /\ pc = "done"
    /\ ret = [result |-> None, err |-> GenerateError]
    /\ status = "INFEASIBLE"
    /\ Len(slots) = 1
    /\ Len(courses) = 2
    /\ \A i \in 1..2 : courses[i].student_groups = <<"G1">>
    /\ \A i \in 1..2 : required_sessions(courses[i]) = 1
    /\ Len(rooms) = 2
    /\ \A i \in 1..2 : rooms[i].available_slots = Some(Range(slots))
                       /\ Get(rooms[i].type, "theory") = "theory"

-----------------------------------------------------------------------------
(* Properties of generate after a successful solve *)

GenerateSteps == <<"solve", "assign_faculty", "validate_timetable">>

\* C11: generate calls the scheduler, the faculty optimiser and the validator
\* once each and in that order; whenever it returns after the scheduler
\* succeeded, the error is null, violations is validate_timetable of the
\* returned assignments (empty or not), and student_timetables is what the
\* scheduler built from its solution.
C11_GenerateOrder ==
    /\ Len(calls) <= 3
    /\ calls = SubSeq(GenerateSteps, 1, Len(calls))
    /\ (pc = "done" /\ status \in {"OPTIMAL", "FEASIBLE"}) =>
          /\ calls = GenerateSteps
          /\ ret.err = None
          /\ Has(ret.result)
          /\ The(ret.result).violations
                = validate_timetable(The(ret.result).assignments)
          /\ The(ret.result).student_timetables
                = student_tt(ordered_assignments(sol.x))
          /\ The(ret.result).student_timetables
                = The(baseline.result).student_timetables

\* generate returned a result that carries violations and a non-empty
\* student timetable
C11_Witness ==
    /\ pc = "done"
    /\ status \in {"OPTIMAL", "FEASIBLE"}
    /\ calls = GenerateSteps
    /\ ret.err = None
    /\ The(ret.result).violations # <<>>
    /\ DOMAIN The(ret.result).student_timetables # {}

-----------------------------------------------------------------------------
(* Scheduler and validator session rules *)

\* C12: for every course record of the master data, the validator's
\* _required_sessions gives the value of the scheduler's _sessions_required,
\* also for a course without sessions_per_week, components, credit_hours and
\* hours_per_week, where both are to give 1.
C12_SameSessionRule ==
    \A c \in Range(courses) :
        /\ _required_sessions(c) = Some(_sessions_required(c))
        /\ (/\ ~Has(c.sessions_per_week)
            /\ ~Has(c.components)
            /\ ~Has(c.credit_hours)
            /\ ~Has(c.hours_per_week)) => _required_sessions(c) = Some(1)

-----------------------------------------------------------------------------
(* Failure behaviour of assign_faculty *)

\* the violations of one kind in a list of violations
OfKind(list, kind) == SelectSeq(list, LAMBDA v : v.kind = kind)

\* C13: assign_faculty returns normally on every input, also when a course's
\* possible_faculty names an id that is not in the master faculty list; the
\* placements it could not staff carry a null faculty_id and are exactly the
\* ones the validator reports as "No faculty assigned".
C13_AssignNeverFails ==
    /\ pc # "raised"
    /\ pc = "done" =>
          LET unstaffed == SelectSeq(Staffed, LAMBDA p : ~Has(p.a.faculty_id))
              reported == OfKind(violations, "no_faculty_assigned")
          IN /\ Len(reported) = Len(unstaffed)
             /\ \A n \in 1..Len(reported) :
                    reported[n].ids = <<unstaffed[n].a.course_code, unstaffed[n].slot>>

-----------------------------------------------------------------------------
(* Qualification of the assigned faculty *)

\* fid is listed in the course's possible_faculty or declares it in expertise
Qualified(fid, code) ==
    \/ \E c \in Range(courses) :
           c.course_code = code /\ fid \in Range(c.possible_faculty)
    \/ \E f \in Range(data.faculty) :
           f.faculty_id = fid /\ code \in f.expertise

\* C14 as claimed: every non-null faculty of a placement is qualified for
\* the placement's course.
C14_AlwaysQualified ==
    \A n \in 1..Len(Staffed) :
        Has(Staffed[n].a.faculty_id) =>
            Qualified(The(Staffed[n].a.faculty_id), Staffed[n].a.course_code)

\* C14 amended: a non-null faculty of a placement of course c in slot s is
\* qualified for c, or it is a faculty of the master list taken by the
\* fallback scan, and then every qualified faculty of the master list is
\* unavailable in s, teaches another placement of s, or is at its weekly cap.
C14_QualifiedOrFallback ==
    \A n \in 1..Len(Staffed) :
        LET p == Staffed[n]
        IN (Has(p.a.faculty_id)
            /\ ~Qualified(The(p.a.faculty_id), p.a.course_code)) =>
               /\ The(p.a.faculty_id) \in Range(faculty_ids)
               /\ \A q \in Range(data.faculty) :
                     Qualified(q.faculty_id, p.a.course_code) =>
                        \/ p.slot \notin Get(q.available_slots, {})
                        \/ \E m \in 1..Len(Staffed) :
                               /\ m # n
                               /\ Staffed[m].slot = p.slot
                               /\ Staffed[m].a.faculty_id = Some(q.faculty_id)
                        \/ LoadOf(q.faculty_id)
                              >= Get(q.max_hours_per_week, 40)

\* a placement staffed by the fallback scan with a faculty that is not
\* qualified, while a qualified faculty is in the master list
C14_Witness ==
    /\ pc = "done"
    /\ \E n \in 1..Len(Staffed) :
          /\ Has(Staffed[n].a.faculty_id)
          /\ ~Qualified(The(Staffed[n].a.faculty_id), Staffed[n].a.course_code)
          /\ \E q \in Range(data.faculty) :
                Qualified(q.faculty_id, Staffed[n].a.course_code)

-----------------------------------------------------------------------------
(* What validate_timetable re-checks *)

\* a lab-requiring course sits in a room whose type is not "lab" (I6)
LabMisplaced(timetable) ==
    \E p \in Range(FlatPlacements(timetable)) :
        /\ p.a.course_code \in DOMAIN course_map
        /\ needs_lab(course_map[p.a.course_code])
        /\ \E r \in Range(rooms) :
               r.room_id = p.a.room_id /\ Get(r.type, "theory") # "lab"

\* one course sits in two adjacent hours of one day (I5)
AdjacentSameCourse(timetable) ==
    \E p, q \in Range(FlatPlacements(timetable)) :
        /\ p.a.course_code = q.a.course_code
        /\ DayOf(p.slot) = DayOf(q.slot)
        /\ TimeOf(q.slot) = TimeOf(p.slot) + 1

\* C15: validate_timetable returns at least one violation for a timetable
\* that breaks I6 (lab course outside a lab room) or I5 (same course in
\* adjacent slots of a day).
C15_ValidatorRechecks ==
    (pc = "done" /\ Has(ret.result)) =>
        LET timetable == The(ret.result).assignments
        IN (LabMisplaced(timetable) \/ AdjacentSameCourse(timetable)) =>
               validate_timetable(timetable) # <<>>

-----------------------------------------------------------------------------
(* Purity of validate_timetable *)

-----------------------------------------------------------------------------
(* Order of the returned assignments *)

\* the slot keys of a timetable, in order
SlotKeys(timetable) == [i \in 1..Len(timetable) |-> timetable[i].slot]

\* the (course, room) pairs of a slot's placements, in order
Cells(assigns) ==
    [j \in 1..Len(assigns) |-> <<assigns[j].course_code, assigns[j].room_id>>]

\* C17: the slot keys of the assignments generate returns are the master
\* time_slots restricted to the slots holding a placement, in master order;
\* the placements of a slot are in ascending course_code order; the faculty
\* optimiser keeps the slots and placements in the order the scheduler gave.
C17_AssignmentOrder ==
    (pc \in {"done", "revalidated"} /\ Has(ret.result)) =>
        LET timetable == The(ret.result).assignments
            Occupied(s) == \E k \in sol.x : k[2] = s
        IN /\ SlotKeys(timetable) = SelectSeq(slots, Occupied)
           /\ \A i \in 1..Len(timetable) :
                 /\ timetable[i].assigns # <<>>
                 /\ \A j, k \in 1..Len(timetable[i].assigns) :
                        j < k =>
                            CodeRank[timetable[i].assigns[j].course_code]
                                <= CodeRank[timetable[i].assigns[k].course_code]
           /\ SlotKeys(timetable) = SlotKeys(baseline_assignments)
           /\ \A i \in 1..Len(timetable) :
                 Cells(timetable[i].assigns) = Cells(baseline_assignments[i].assigns)

\* a returned slot holds C1 before C2 although the master list has C2 first,
\* and the master slots are not in alphabetical order
C17_Witness ==
    /\ pc = "done"
    /\ Has(ret.result)
    /\ courses[1].course_code = "C2"
    /\ slots = <<"Mon_10", "Mon_09">>
    /\ \E i \in 1..Len(The(ret.result).assignments) :
          LET a == The(ret.result).assignments[i].assigns
          IN Len(a) = 2 /\ a[1].course_code = "C1" /\ a[2].course_code = "C2"

-----------------------------------------------------------------------------
(* Independence of two requests served at once *)

RECURSIVE AssignAll(_, _)
\* assign_faculty run from start to end without interruption
AssignAll(L, input) ==
    IF L.si > Len(input) THEN L ELSE AssignAll(assign_one(L, input), input)

\* C18: with two generate requests whose steps interleave in any way, on one
\* master data object or on two, the master data of each request stays what
\* it was given, and the faculty load counters, faculty timetables and
\* violations of a finished request are those of assign_faculty and
\* validate_timetable run alone on that request's scheduler output.
C18_RequestsIndependent ==
    Has(conc.parked) =>
        /\ data = The(conc.input)
        /\ The(conc.parked).data = The(conc.parked).input
        /\ (pc = "done" /\ Has(ret.result)) =>
              LET alone == AssignAll(FoStart, baseline_assignments)
              IN /\ fo.load = alone.load
                 /\ fo.faculty_tt = alone.faculty_tt
                 /\ fo.assignments = alone.assignments
                 /\ The(ret.result).faculty_timetables = alone.faculty_tt
                 /\ violations = validate_timetable(alone.assignments)
                 /\ The(ret.result).violations = violations

\* both requests have finished after being suspended inside the loop of
\* assign_faculty, on different master data, with different violations
C18_Witness ==
    /\ Has(conc.parked)
    /\ conc.mid
    /\ ~conc.same
    /\ pc = "done" /\ Has(ret.result)
    /\ The(conc.parked).pc = "done" /\ Has(The(conc.parked).ret.result)
    /\ fo.load # The(conc.parked).fo.load
    /\ violations # <<>>
    /\ violations # The(conc.parked).violations

-----------------------------------------------------------------------------
(* The constraints that come with the soft objective *)

\* the placements that satisfy the hard constraints
HardFeasible ==
    {y \in Candidates(build_vars, Len(courses)) : add_hard_constraints(build_vars, y)}

\* C19: the constraints added by add_soft_objective exclude no placement:
\* every assignment of the placement variables that satisfies the hard
\* constraints is the placement of a solution of the full model, and solve
\* reports infeasibility only when no placement satisfies the hard
\* constraints, also for a course with one eligible room.
C19_SoftExcludesNothing ==
    /\ pc = "solved" => HardFeasible = {s.x : s \in Solutions}
    /\ (pc = "done" /\ status = "INFEASIBLE") => HardFeasible = {}

\* group gid has a placement of one of its courses on the day
DayHasPlacement(gid, day) == Sum(day_vars(build_vars, gid, day), sol.x) >= 1

\* C20: in every solution, day_used[g, d] is true exactly when a placement
\* variable of one of g's courses in a slot of day d is true, and every pair
\* of used days of g more than two days apart has its both_days variable
\* true, so that its gap is counted in the objective.
C20_DayUsedIsOr ==
    pc = "solved" =>
        /\ \A key \in DayKeys(build_vars) :
               key \in sol.day_used <=> DayHasPlacement(key[1], key[2])
        /\ \A key \in DayPairKeys(build_vars) :
               (DayHasPlacement(key[1], key[2]) /\ DayHasPlacement(key[1], key[3]))
                   => key \in sol.both_days

-----------------------------------------------------------------------------
(* The choice of assign_faculty for one placement *)

\* the placement assign_faculty processes next, and its slot
NextSlot == baseline_assignments[fo.si].slot

NextPlacement == baseline_assignments[fo.si].assigns[fo.ai]

\* the entry the step has just appended
LastEntry(L) ==
    LET cell == L.assignments[Len(L.assignments)].assigns
    IN cell[Len(cell)]

\* faculty f passes the three tests for slot s under the counters of L
Survives(L, f, s) ==
    /\ f \in Range(faculty_ids)
    /\ \E i \in 1..Len(data.faculty) :
          /\ data.faculty[i].faculty_id = f
          /\ s \in Get(data.faculty[i].available_slots, {})
          /\ L.load[f] < Get(data.faculty[i].max_hours_per_week, DefaultMaxHours)
    /\ s \notin DOMAIN L.faculty_tt[f]

\* possible_faculty of the course in declared order, then the master-order
\* faculty that declare the course in expertise and are not listed
CandidateList(code) ==
    LET declared == UNION {{c.possible_faculty} : c \in {d \in Range(courses) : d.course_code = code}}
        pf == IF declared = {} THEN <<>> ELSE The(declared)
    IN pf \o SelectSeq(faculty_ids,
                 LAMBDA f : f \notin Range(pf)
                            /\ \E r \in Range(data.faculty) :
                                  r.faculty_id = f /\ code \in r.expertise)

\* C21: for each placement (c, s), when a candidate (possible_faculty in
\* declared order, then master-order experts not listed) is available at s,
\* not teaching at s and under its cap, the step of assign_faculty attaches
\* the surviving candidate of lowest load at that moment, the earliest in
\* the candidate list among equal loads.
C21_LeastLoadedCandidate ==
    [][(pc = "assign" /\ fo' # fo) =>
          LET s == NextSlot
              cands == CandidateList(NextPlacement.course_code)
              surv == {i \in 1..Len(cands) : Survives(fo, cands[i], s)}
          IN surv # {} =>
                \E i \in surv :
                    /\ LastEntry(fo').faculty_id = Some(cands[i])
                    /\ \A j \in surv :
                          /\ fo.load[cands[i]] <= fo.load[cands[j]]
                          /\ fo.load[cands[i]] = fo.load[cands[j]] => i <= j]_vars

\* two placements of C1 were processed: F1 and F2 tied for the first, which
\* went to F1, the earlier candidate; both survived for the second, which
\* went to F2, the later candidate, for its lower load
C21_Witness ==
    /\ pc = "assign"
    /\ Len(fo.assignments) = 2
    /\ CandidateList("C1") = <<"F1", "F2">>
    /\ fo.assignments[1].assigns = <<Enriched(InputPlacement("C1", "R1"), Some("F1"))>>
    /\ fo.assignments[2].assigns = <<Enriched(InputPlacement("C1", "R1"), Some("F2"))>>
    /\ \A f \in {"F1", "F2"} :
          fo.assignments[2].slot \in Get(faculty_obj(f).available_slots, {})
    /\ Get(faculty_obj("F1").max_hours_per_week, DefaultMaxHours) > 1

\* C22: when no candidate survives the filter, the step attaches the first
\* faculty in master order that is available at s, not teaching at s and
\* under its cap; the placement gets faculty_id = null exactly when no
\* faculty of the master list passes the three tests at that moment.
C22_FallbackFirstInMaster ==
    [][(pc = "assign" /\ fo' # fo) =>
          LET s == NextSlot
              cands == CandidateList(NextPlacement.course_code)
              master == {i \in 1..Len(data.faculty) :
                            Survives(fo, data.faculty[i].faculty_id, s)}
          IN /\ (\A i \in 1..Len(cands) : ~Survives(fo, cands[i], s)) =>
                    \/ master = {} /\ LastEntry(fo').faculty_id = None
                    \/ \E i \in master :
                          /\ LastEntry(fo').faculty_id = Some(data.faculty[i].faculty_id)
                          /\ \A j \in master : i <= j
             /\ LastEntry(fo').faculty_id = None <=> master = {}]_vars

\* C2 has no candidate, F1 and F2 both passed the three tests and the
\* fallback gave it F1; the next placement found no faculty and got null
C22_Witness ==
    /\ pc = "assign"
    /\ CandidateList("C2") = <<>>
    /\ Len(fo.assignments) = 2
    /\ fo.assignments[1].assigns = <<Enriched(InputPlacement("C2", "R2"), Some("F1"))>>
    /\ Len(data.faculty) = 2
    /\ fo.assignments[1].slot \in Get(faculty_obj("F2").available_slots, {})
    /\ LastEntry(fo).faculty_id = None

-----------------------------------------------------------------------------
(* What assign_faculty leaves alone *)

\* the fields of a placement other than faculty_id
PlacementFields ==
    {"course_code", "course_name", "room_id", "course_track", "credit_hours",
     "components"}

\* timetable out is timetable inp with a faculty_id on each placement
SameButFaculty(out, inp) ==
    /\ Len(out) = Len(inp)
    /\ \A i \in 1..Len(inp) :
          /\ out[i].slot = inp[i].slot
          /\ Len(out[i].assigns) = Len(inp[i].assigns)
          /\ \A j \in 1..Len(inp[i].assigns) :
                /\ DOMAIN out[i].assigns[j] = PlacementFields \cup {"faculty_id"}
                /\ \A f \in PlacementFields :
                      out[i].assigns[j][f] = inp[i].assigns[j][f]

\* C23: assign_faculty changes nothing but the added faculty_id: its output
\* has the slot keys of its input in the same order, the same number of
\* placements per slot in the same order, every field other than faculty_id
\* equal to the input's, and the input placements are not modified.
C23_OnlyFacultyAdded ==
    [][pc = "assign" =>
          /\ baseline' = baseline
          /\ pc' = "done" =>
                /\ SameButFaculty(The(ret'.result).assignments, baseline_assignments)
                /\ fo' = fo]_vars

\* assign_faculty returned a timetable of two slots, the later slot of the
\* master list first, with two placements in a slot
C23_Witness ==
    /\ pc = "done"
    /\ Has(ret.result)
    /\ SlotKeys(The(ret.result).assignments) = <<"Mon_10", "Mon_09">>
    /\ Len(The(ret.result).assignments[1].assigns) = 2
    /\ \E a \in Range(The(ret.result).assignments[1].assigns) : Has(a.faculty_id)

-----------------------------------------------------------------------------
(* validate_timetable on its own: any timetable as input, master data with
   credit requirements, declared choices and teaching practice windows.
   Credits are counted in half hours, as credit_hours is. *)

ValSlots == <<"Mon_09", "Mon_10">>

\* a placement of the timetable handed to the validator
ValPlacement(code, rid, fid) ==
    Enriched(InputPlacement(code, rid), fid)

\* one slot holding more placements of F1 than the default weekly load
OverloadTimetable ==
    <<[slot |-> "Mon_09",
       assigns |-> [j \in 1..(DefaultMaxHours + 1) |->
                       ValPlacement("C1", "R1", Some("F1"))]]>>

ValTimetables ==
    LET cells == {<<ValPlacement("C1", "R1", Some("F1"))>>,
                  <<ValPlacement("C1", "R1", None)>>,
                  <<ValPlacement("C1", "R1", Some("F1")),
                    ValPlacement("C2", "R1", Some("F1"))>>,
                  <<ValPlacement("C2", "RX", Some("FX"))>>}
        orders == {<<"Mon_09">>, <<"Mon_10">>, <<"Thu_17">>, <<"Mon_09", "Mon_10">>}
    IN UNION {{[i \in 1..Len(o) |-> [slot |-> o[i], assigns |-> f[i]]] :
                 f \in [1..Len(o) -> cells]} : o \in orders}

\* credit_requirements of the group
ValRequirements ==
    {EmptyMap,
     [k \in {"min", "major_min"} |-> IF k = "min" THEN 12 ELSE 8],
     [k \in {"max", "minor_min", "skill_min"} |-> IF k = "max" THEN 6 ELSE 8],
     [k \in {"min", "major_min", "skill_min"} |-> IF k = "skill_min" THEN 6 ELSE 0]}

\* course_choices of the group: a mapping label -> courses, or a list
ValChoices ==
    {[is_map |-> TRUE, list |-> <<>>,
      map |-> <<[label |-> "major", courses |-> <<"C1">>],
                [label |-> "minor", courses |-> <<"C2">>]>>],
     [is_map |-> TRUE, list |-> <<>>,
      map |-> <<[label |-> "Major", courses |-> <<"C2">>]>>],
     [is_map |-> FALSE, list |-> <<"C1">>, map |-> <<>>],
     [is_map |-> TRUE, list |-> <<>>, map |-> <<>>]}

ValGroupLists ==
    {<<[Group("G1", <<"s1">>) EXCEPT !.credit_requirements = reqs,
                                     !.course_choices = ch]>> :
        reqs \in ValRequirements, ch \in ValChoices}

\* teaching_practice_windows: absent, or a mapping key -> slots
ValWindows ==
    {None, Some(EmptyMap),
     Some([k \in {"G1"} |-> {}]),
     Some([k \in {"G1"} |-> {"Mon_09"}]),
     Some([k \in {"P1"} |-> {"Mon_10"}]),
     Some([k \in {"G1", "P1"} |-> IF k = "G1" THEN {} ELSE {"Mon_10"}])}

\* teaching_practice_required and program of C1, with the windows
ValPractice ==
    {[req |-> FALSE, program |-> None, windows |-> w] :
        w \in {None, Some([k \in {"G1"} |-> {"Mon_09"}])}}
    \cup {[req |-> TRUE, program |-> None, windows |-> w] : w \in ValWindows}
    \cup {[req |-> TRUE, program |-> Some("P1"), windows |-> w] :
             w \in {Some([k \in {"P1"} |-> {"Mon_10"}]),
                    Some([k \in {"G1", "P1"} |-> IF k = "G1" THEN {} ELSE {"Mon_10"}])}}

\* C1 and C2 are courses of G1 of 3 credit hours and one session each
ValCourses(track, p) ==
    LET three == Sess(Some(1), None, Some(6), None)
    IN <<[Course("C1", three, <<"G1">>, None, <<>>) EXCEPT
             !.course_track = track,
             !.teaching_practice_required = p.req,
             !.program = p.program],
         Course("C2", three, <<"G1">>, None, <<>>)>>

ValFacultyLists ==
    {<<Faculty("F1", {}, Some(Range(ValSlots)), cap)>> :
        cap \in {None} \cup {Some(n) : n \in 0..MaxCap}}

ValData ==
    {[time_slots |-> ValSlots, courses |-> ValCourses(track, p),
      rooms |-> <<Room("R1", None, None, Some({"Mon_09"}))>>,
      faculty |-> fs, student_groups |-> gs,
      teaching_practice_windows |-> p.windows] :
        track \in {None, Some("Skill")}, p \in ValPractice,
        fs \in ValFacultyLists, gs \in ValGroupLists}

\* the timetables validated against master data d: the overloaded one goes
\* with master data without credit requirements and practice windows
ValInputs(d) ==
    ValTimetables
    \cup (IF d.teaching_practice_windows = None
             /\ d.student_groups[1].credit_requirements = EmptyMap
          THEN {OverloadTimetable} ELSE {})

\* generate is about to call validate_timetable(timetable, data)
InitVal ==
    /\ data \in ValData
    /\ \E tt \in ValInputs(data) :
          /\ baseline = [result |-> Some([assignments |-> tt,
                                          student_timetables |-> EmptyMap]),
                         err |-> None]
          /\ fo = [FoStart EXCEPT !.assignments = tt, !.si = Len(tt) + 1]
    /\ pc = "assign"
    /\ status = "NONE"
    /\ sol = NoSol
    /\ violations = <<>>
    /\ calls = <<"assign_faculty">>
    /\ ret = NoReturn
    /\ conc = NoConc

NextVal ==
    \/ Validate
    \/ Revalidate

SpecVal == InitVal /\ [][NextVal]_vars

-----------------------------------------------------------------------------
(* The kinds of check of the validator *)

\* validate_timetable has returned its list for the timetable fo.assignments
Validated == pc \in {"done", "revalidated"} /\ Has(ret.result)

\* the messages of each kind of check
KindsOfCheck ==
    [slot |-> {"slot_not_in_master"},
     room |-> {"room_not_found", "room_not_available", "room_double_booked",
               "room_capacity"},
     faculty |-> {"no_faculty_assigned", "faculty_not_in_master",
                  "faculty_not_available", "faculty_double_booked",
                  "faculty_exceeds_load"},
     group |-> {"group_multiple_classes"},
     sessions |-> {"sessions_mismatch"},
     credit |-> CreditKinds,
     practice |-> PracticeKinds]

\* the messages of the list that belong to one kind of check, in order
Reported(list, check) ==
    SelectSeq(list, LAMBDA v : v.kind \in KindsOfCheck[check])

\* what one kind of check reports for the timetable when run alone
CheckAlone(check, timetable) ==
    CASE check = "slot" -> SlotChecks(timetable)
      [] check = "room" -> RoomChecks(timetable)
      [] check = "faculty" -> FacultyChecks(timetable)
      [] check = "group" -> GroupChecks(timetable)
      [] check = "sessions" -> SessionChecks(timetable)
      [] check = "credit" -> CreditChecks(timetable)
      [] check = "practice" -> PracticeChecks(timetable)

\* C24: the validator never short-circuits: what it reports for one kind
\* of check (slot, room, faculty, group, sessions, credit, teaching
\* practice) is what that check reports alone, whether or not another kind
\* reports; every message belongs to one kind.
C24_NoShortCircuit ==
    Validated =>
        /\ \A check \in DOMAIN KindsOfCheck :
              Reported(violations, check) = CheckAlone(check, fo.assignments)
        /\ \A n \in 1..Len(violations) :
              \E check \in DOMAIN KindsOfCheck : violations[n].kind \in KindsOfCheck[check]

\* one list holds messages of six kinds of check, two of them (room not
\* found, faculty not in master list) on the same placement
C24_Witness ==
    /\ Validated
    /\ Cardinality({check \in DOMAIN KindsOfCheck :
                       Reported(violations, check) # <<>>}) >= 6
    /\ \E v, w \in Range(violations) :
          /\ v.kind = "room_not_found"
          /\ w.kind = "faculty_not_in_master"
          /\ v.ids[2] = w.ids[2]

-----------------------------------------------------------------------------
(* Weekly load of the faculty *)

\* the number of placements of the validated timetable that carry faculty f
PlacementsOf(f) ==
    LET flat == FlatPlacements(fo.assignments)
    IN Cardinality({n \in 1..Len(flat) : flat[n].a.faculty_id = Some(f)})

\* the weekly cap of master faculty record r, 40 when the field is absent
WeeklyCap(r) == Get(r.max_hours_per_week, DefaultMaxHours)

\* C25: validate_timetable emits "Faculty <f> exceeds weekly load:
\* <load>/<max>" for every master faculty f whose number of placements in
\* the timetable exceeds f.max_hours_per_week, taken as 40 when the field
\* is absent, and for no other faculty.
C25_WeeklyLoadReported ==
    Validated =>
        /\ \A r \in Range(data.faculty) :
              PlacementsOf(r.faculty_id) > WeeklyCap(r) =>
                  Violation("faculty_exceeds_load", <<r.faculty_id>>,
                            <<PlacementsOf(r.faculty_id), WeeklyCap(r)>>)
                      \in Range(violations)
        /\ \A v \in Range(OfKind(violations, "faculty_exceeds_load")) :
              \E r \in Range(data.faculty) :
                  /\ r.faculty_id = v.ids[1]
                  /\ PlacementsOf(r.faculty_id) > WeeklyCap(r)

-----------------------------------------------------------------------------
(* Credit and track compliance *)

\* the distinct courses with a placement in the validated timetable that
\* list group gid in student_groups
CoursesPlacedFor(gid) ==
    {c \in Range(data.courses) :
        /\ gid \in Range(c.student_groups)
        /\ \E p \in Range(FlatPlacements(fo.assignments)) :
              p.a.course_code = c.course_code}

\* the track a course of the group counts under: the lowercased label of a
\* mapping-shaped course_choices that lists it, otherwise the course's own
\* course_track lowercased, "elective" when it has none
TrackOf(group, c) ==
    LET ch == group.course_choices
        listing == IF ch.is_map
                   THEN {e \in Range(ch.map) : c.course_code \in Range(e.courses)}
                   ELSE {}
    IN IF listing # {} THEN Lower(The(listing).label)
       ELSE Lower(Get(c.course_track, "elective"))

\* the credits of the courses placed for the group that count under track
TrackTotal(group, track) ==
    LET placed == {c \in CoursesPlacedFor(group.group_id) : TrackOf(group, c) = track}
    IN SumSet(placed, [c \in placed |-> The(c.credit_hours)])

TotalCredits(group) ==
    LET placed == CoursesPlacedFor(group.group_id)
    IN SumSet(placed, [c \in placed |-> The(c.credit_hours)])

\* scenario S6: min 6, major_min 4, C1 chosen as major and C2 as minor, 3
\* credit hours each, both placed
ScenarioS6 ==
    /\ data.student_groups[1].credit_requirements =
           [k \in {"min", "major_min"} |-> IF k = "min" THEN 12 ELSE 8]
    /\ data.student_groups[1].course_choices.map =
           <<[label |-> "major", courses |-> <<"C1">>],
             [label |-> "minor", courses |-> <<"C2">>]>>
    /\ Cardinality(CoursesPlacedFor("G1")) = 2

\* C26: for each group with credit_requirements, each distinct course placed
\* for the group counts once, in the total and in one track (the lowercased
\* label of a mapping-shaped course_choices listing it, otherwise the
\* course's course_track lowercased, default "elective"); a "below required"
\* message for major, minor or skill is emitted exactly when that track's
\* total is below the *_min of the group, with the total and the minimum.
\* In scenario S6 the list has "major credits 3 below required 4" (6 and 8
\* half hours) and no message on the total.
C26_TrackCredits ==
    Validated =>
        /\ \A g \in Range(data.student_groups) :
           \A t \in {"major", "minor", "skill"} :
              LET reqs == g.credit_requirements
                  key == IF t = "major" THEN "major_min"
                         ELSE IF t = "minor" THEN "minor_min" ELSE "skill_min"
                  required == MapGet(reqs, key, 0)
                  below == TrackTotal(g, t) < required
                  msgs == {v \in Range(violations) :
                              v.kind = "credits_below_required" /\ v.ids = <<g.group_id, t>>}
              IN /\ below =>
                       msgs = {Violation("credits_below_required", <<g.group_id, t>>,
                                         <<TrackTotal(g, t), required>>)}
                 /\ ~below => msgs = {}
        /\ \A g \in Range(data.student_groups) :
              LET reqs == g.credit_requirements
                  min == MapGet(reqs, "min", 0)
              IN TotalCredits(g) < min
                    <=> Violation("credits_below_minimum", <<g.group_id>>,
                                  <<TotalCredits(g), min>>) \in Range(violations)
        /\ ScenarioS6 =>
              /\ Violation("credits_below_required", <<"G1", "major">>, <<6, 8>>)
                     \in Range(violations)
              /\ OfKind(violations, "credits_below_minimum") = <<>>

\* scenario S6 was validated and the major message is in the list
C26_Witness ==
    /\ Validated
    /\ ScenarioS6
    /\ Violation("credits_below_required", <<"G1", "major">>, <<6, 8>>)
           \in Range(violations)

-----------------------------------------------------------------------------
(* Teaching practice windows *)

\* the allowed window of group gid for course c: the window keyed by the
\* group, otherwise the one keyed by the course's program, if any
AllowedWindow(c, gid) ==
    LET windows == The(data.teaching_practice_windows)
    IN IF gid \in DOMAIN windows THEN Some(windows[gid])
       ELSE IF Has(c.program) /\ The(c.program) \in DOMAIN windows
       THEN Some(windows[The(c.program)])
       ELSE None

\* C27: when master data has teaching_practice_windows, for every placement
\* at slot s of a course with teaching_practice_required and every group g
\* of the course's student_groups, the teaching-practice message for
\* (course, g, s) is emitted if and only if an allowed window exists for g
\* (keyed by g, otherwise by the course's program) and s is not in it; a
\* group whose own window is the empty set has every slot outside it.
C27_PracticeWindow ==
    (Validated /\ Has(data.teaching_practice_windows)) =>
        \A p \in Range(FlatPlacements(fo.assignments)) :
        \A c \in {d \in Range(data.courses) :
                     d.course_code = p.a.course_code /\ d.teaching_practice_required} :
        \A g \in Range(c.student_groups) :
            Violation("outside_practice_window", <<c.course_code, g, p.slot>>, <<>>)
                    \in Range(violations)
                <=> /\ Has(AllowedWindow(c, g))
                    /\ p.slot \notin The(AllowedWindow(c, g))

-----------------------------------------------------------------------------
(* Student timetables *)

\* the master groups student stu belongs to
GroupsOfStudent(stu) == {g.group_id : g \in {h \in Range(groups) : stu \in Range(h.students)}}

AllStudents == UNION {Range(g.students) : g \in Range(groups)}

\* student_timetables[stu][s] = c in the result of solve
HasEntry(stu, s, c) ==
    LET st == The(baseline.result).student_timetables
    IN stu \in DOMAIN st /\ s \in DOMAIN st[stu] /\ st[stu][s] = c

\* C28: in the result of solve, when every student belongs to exactly one
\* group, student_timetables[stu][s] = c if and only if a placement of
\* course c is in slot s and stu is a student of a master group listed in
\* c.student_groups; a student of group g has as many entries as the sum of
\* the required sessions of g's courses, and a student with no placement
\* has no key.
C28_StudentTimetables ==
    (Solved /\ \A stu \in AllStudents : Cardinality(GroupsOfStudent(stu)) = 1) =>
        LET st == The(baseline.result).student_timetables
        IN /\ DOMAIN st \subseteq AllStudents
           /\ \A stu \in AllStudents :
                 LET mine == {c \in Range(courses) :
                                 Range(c.student_groups) \cap GroupsOfStudent(stu) # {}}
                     entries == IF stu \in DOMAIN st THEN Cardinality(DOMAIN st[stu]) ELSE 0
                 IN /\ \A s \in SlotIds, code \in CourseCodes :
                          HasEntry(stu, s, code)
                              <=> \E p \in Placed, c \in mine :
                                     /\ p.slot = s
                                     /\ p.a.course_code = code
                                     /\ c.course_code = code
                    /\ entries = SumSet(mine, [c \in mine |-> required_sessions(c)])
                    /\ stu \in DOMAIN st => st[stu] # EmptyMap
                    /\ stu \in DOMAIN st => DOMAIN st[stu] \subseteq Range(slots)

\* both students of G1 have an entry for each of the two courses of G1
C28_Witness ==
    /\ Solved
    /\ \E s, t \in SlotIds : HasEntry("s1", s, "C1") /\ HasEntry("s1", t, "C2")
    /\ Cardinality(DOMAIN The(baseline.result).student_timetables["s2"]) = 2

-----------------------------------------------------------------------------
(* Agreement of the faculty timetables, the load counters and the
   enriched placements *)

\* C29: after every step of assign_faculty and at its return,
\* faculty_tt[f][s] = c if and only if an enriched placement of course c in
\* slot s carries faculty_id f, load[f] is the number of entries of
\* faculty_tt[f], and every faculty of the master list has a key in
\* faculty_tt, empty when nothing is assigned to it.
C29_CountersAgree ==
    /\ pc \in {"assign", "raised", "done", "revalidated"} =>
          /\ DOMAIN fo.faculty_tt = {r.faculty_id : r \in Range(data.faculty)}
          /\ DOMAIN fo.load = DOMAIN fo.faculty_tt
          /\ \A f \in DOMAIN fo.faculty_tt :
                /\ fo.load[f] = Cardinality(DOMAIN fo.faculty_tt[f])
                /\ \A s \in SlotIds, c \in CourseCodes :
                      (s \in DOMAIN fo.faculty_tt[f] /\ fo.faculty_tt[f][s] = c)
                          <=> \E p \in Range(Staffed) :
                                 /\ p.slot = s
                                 /\ p.a.course_code = c
                                 /\ p.a.faculty_id = Some(f)
                /\ DOMAIN fo.faculty_tt[f] \subseteq SlotIds
    /\ Succeeded =>
          /\ The(ret.result).faculty_timetables = fo.faculty_tt
          /\ The(ret.result).assignments = fo.assignments

\* assign_faculty is in its loop: F1 teaches in two slots, F2 in one, and
\* a placement has no faculty
C29_Witness ==
    /\ pc = "assign"
    /\ Len(data.faculty) = 2
    /\ fo.load["F1"] = 2
    /\ fo.load["F2"] = 1
    /\ \E p \in Range(Staffed) : p.a.faculty_id = None

-----------------------------------------------------------------------------
(* One placement of a course per slot *)

\* C30: in every result returned by solve, no course has two placements in
\* the same slot (in two different rooms), also a course whose
\* student_groups is empty or names no group of the master data.
C30_OncePerSlot ==
    Solved =>
        \A p, q \in Placed :
            (p.slot = q.slot /\ p.a.course_code = q.a.course_code) => p = q

=============================================================================
